---- MODULE Spec2Model ----
(***************************************************************************)
(* Model of the rule-based classifiers of spotify-dashboard                *)
(* (modules/tele-bot/src/detector): detect_genre, detect_mood and          *)
(* detect_language_from_country.                                           *)
(*                                                                         *)
(* Number representation.  Every f32 of the source is an integer count of  *)
(* hundredths: 0.45 is 45, 90.0 is 9000, -8.0 is -800.  All literals of    *)
(* the source and all inputs of the model are decimals with at most two    *)
(* fractional digits, and rounding to f32 is monotonic and injective on    *)
(* them, so the order of the f32 values is the order of the integers.      *)
(* NaN is a separate value for which every comparison is false.  Scores    *)
(* are sums of the weights 1.0, 2.0 and 5.0, exact in f32, and are kept as *)
(* integers; a confidence max_score / 12.0 is kept as the fraction         *)
(* [num |-> max_score, den |-> 12].                                        *)
(*                                                                         *)
(* Strings are sequences of one-character strings over ASCII letters,      *)
(* digits, punctuation and the space.                                      *)
(***************************************************************************)
EXTENDS Integers, Sequences, FiniteSets, TLC

VARIABLES
    features,        \* AudioFeatures of the track under classification
    artist_genres,   \* &[String]: the artist's genre tags
    popularity,      \* u32
    genreDetection,  \* <<>> or <<GenreDetection>>: detect_genre's result for the input
    moodDetection,   \* <<>> or <<MoodDetection>>: detect_mood's result for the input
    countryCode,     \* Option<&str>: the artist's country code
    languageDetection, \* <<>> or <<LanguageDetection>>: the resolver's result for countryCode
    languageCode,    \* <<>> or <<&str>>: code() of the resolved language
    spotify,         \* HTTP backend, AppState.spotify: Option<AuthCodeSpotify>
    spotify_lock,    \* HTTP backend: the request that holds the Mutex of AppState.spotify
    requests,        \* HTTP backend: the requests, each with its handler's position
    CHAT_STATES,     \* bot: HashMap<i64, AppState>
    updates          \* bot: per chat, the command being handled and its reply

detectorVars == <<features, artist_genres, popularity, genreDetection, moodDetection,
                  countryCode, languageDetection, languageCode>>
serverVars == <<spotify, spotify_lock, requests>>
botVars == <<CHAT_STATES, updates>>

vars == <<detectorVars, serverVars, botVars>>

\* Largest number of tags added to the tag list of a base input.
MaxTags == 2

\* Number of requests the HTTP backend handles at a time.
MaxRequests == 2

\* Largest length of the argument of /add_to_playlist.
MaxArgLen == 2

----------------------------------------------------------------------------
(* f32 *)

\* f32::NAN: distinct from every number of the model; only the four
\* comparisons below look at it.
NaN == 1000000

\* f32::NEG_INFINITY, the seed of the fold that computes max_score.
NEG_INFINITY == -1000000

\* a < b, a > b, a <= b, a >= b on f32: false when the left operand is NaN
\* (the right operand is always a literal).
FLt(a, b) == a # NaN /\ a < b
FGt(a, b) == a # NaN /\ a > b
FLe(a, b) == a # NaN /\ a <= b
FGe(a, b) == a # NaN /\ a >= b

\* f32::max on two scores (scores are never NaN).
f32_max(a, b) == IF a >= b THEN a ELSE b

\* .iter().copied().fold(init, f32::max)
RECURSIVE fold_max(_, _)
fold_max(acc, xs) ==
    IF xs = <<>> THEN acc ELSE fold_max(f32_max(acc, Head(xs)), Tail(xs))

----------------------------------------------------------------------------
(* Strings *)

UpperChars == <<"A","B","C","D","E","F","G","H","I","J","K","L","M",
                "N","O","P","Q","R","S","T","U","V","W","X","Y","Z">>
LowerChars == <<"a","b","c","d","e","f","g","h","i","j","k","l","m",
                "n","o","p","q","r","s","t","u","v","w","x","y","z">>

\* The lower-case letter of every upper-case ASCII letter.
upper_to_lower ==
    [ c \in { UpperChars[i] : i \in 1..Len(UpperChars) } |->
        LowerChars[CHOOSE i \in 1..Len(UpperChars) : UpperChars[i] = c] ]

\* char lower-casing: an upper-case ASCII letter becomes its lower-case
\* letter, every other character of the model's alphabet is unchanged.
char_to_lowercase(c) ==
    IF c \in DOMAIN upper_to_lower THEN upper_to_lower[c] ELSE c

\* str::to_lowercase
to_lowercase(s) == [i \in 1..Len(s) |-> char_to_lowercase(s[i])]

\* str::contains(&str): the needle occurs as a contiguous substring.
contains(haystack, needle) ==
    \E i \in 0..(Len(haystack) - Len(needle)) :
        SubSeq(haystack, i + 1, i + Len(needle)) = needle

\* The keyword literals of the scoring functions.
kw_ballad      == <<"b","a","l","l","a","d">>
kw_rock        == <<"r","o","c","k">>
kw_edm         == <<"e","d","m">>
kw_house       == <<"h","o","u","s","e">>
kw_techno      == <<"t","e","c","h","n","o">>
kw_electronic  == <<"e","l","e","c","t","r","o","n","i","c">>
kw_hip_hop     == <<"h","i","p"," ","h","o","p">>
kw_hip_hop2    == <<"h","i","p","-","h","o","p">>
kw_rap         == <<"r","a","p">>
kw_r_and_b     == <<"r","&","b">>
kw_rnb         == <<"r","n","b">>
kw_r_and_b_soul == <<"r","&","b","/","s","o","u","l">>
kw_jazz        == <<"j","a","z","z">>
kw_classical   == <<"c","l","a","s","s","i","c","a","l">>
kw_orchestra   == <<"o","r","c","h","e","s","t","r","a">>
kw_symphony    == <<"s","y","m","p","h","o","n","y">>
kw_indie       == <<"i","n","d","i","e">>
kw_alternative == <<"a","l","t","e","r","n","a","t","i","v","e">>
kw_metal       == <<"m","e","t","a","l">>
kw_heavy_metal == <<"h","e","a","v","y"," ","m","e","t","a","l">>

----------------------------------------------------------------------------
(* genre.rs *)

\* Variant: the bonus is added for every matching tag.
artist_genre_bonus_per_tag(genres, keywords) ==
    5 * Cardinality({ g \in 1..Len(genres) :
                        \E k \in 1..Len(keywords) :
                            contains(to_lowercase(genres[g]), keywords[k]) })

\* Variant: the bonus is 3.0.
artist_genre_bonus_weight_3(genres, keywords) ==
    IF \E g \in 1..Len(genres) :
          \E k \in 1..Len(keywords) : contains(to_lowercase(genres[g]), keywords[k])
    THEN 3 ELSE 0

\* artist_genre_bonus: 5.0 if any tag, lower-cased, contains any keyword.
artist_genre_bonus(genres, keywords) ==
    LET has_match ==
            \E g \in 1..Len(genres) :
                \E genre_lower \in {to_lowercase(genres[g])} :
                    \E k \in 1..Len(keywords) : contains(genre_lower, keywords[k])
    IN  IF has_match THEN 5 ELSE 0

\* `if cond { score += w; }`
Add(cond, w) == IF cond THEN w ELSE 0

\* Variant: the valence threshold is 0.3 instead of 0.6.
score_ballad_low_valence(f, genres) ==
    artist_genre_bonus(genres, <<kw_ballad>>)
    + Add(FLt(f.tempo, 9000), 1)
    + Add(FLt(f.energy, 45), 1)
    + Add(FGt(f.acousticness, 40), 1)
    + Add(FLt(f.valence, 30), 1)

score_ballad(f, genres) ==
    artist_genre_bonus(genres, <<kw_ballad>>)
    + Add(FLt(f.tempo, 9000), 1)
    + Add(FLt(f.energy, 45), 1)
    + Add(FGt(f.acousticness, 40), 1)
    + Add(FLt(f.valence, 60), 1)

\* Variant: the tempo range excludes its bounds.
score_pop_exclusive_tempo(f, genres) ==
      Add(FGt(f.tempo, 9000) /\ FLt(f.tempo, 13000), 1)
    + Add(FGe(f.energy, 40) /\ FLe(f.energy, 80), 1)
    + Add(FGt(f.danceability, 50), 1)
    + Add(FGt(f.valence, 40), 1)

\* Variant: the valence threshold is 0.6 instead of 0.4.
score_pop_high_valence(f, genres) ==
      Add(FGe(f.tempo, 9000) /\ FLe(f.tempo, 13000), 1)
    + Add(FGe(f.energy, 40) /\ FLe(f.energy, 80), 1)
    + Add(FGt(f.danceability, 50), 1)
    + Add(FGt(f.valence, 60), 1)

score_pop(f, genres) ==
      Add(FGe(f.tempo, 9000) /\ FLe(f.tempo, 13000), 1)
    + Add(FGe(f.energy, 40) /\ FLe(f.energy, 80), 1)
    + Add(FGt(f.danceability, 50), 1)
    + Add(FGt(f.valence, 40), 1)

score_rock(f, genres) ==
    artist_genre_bonus(genres, <<kw_rock>>)
    + Add(FGt(f.energy, 65), 1)
    + Add(FGt(f.loudness, -800), 1)
    + Add(FLt(f.acousticness, 30), 1)
    + Add(FGe(f.tempo, 9000) /\ FLe(f.tempo, 16000), 1)

score_edm(f, genres) ==
    artist_genre_bonus(genres, <<kw_edm, kw_house, kw_techno, kw_electronic>>)
    + Add(FGt(f.danceability, 70), 1)
    + Add(FGt(f.energy, 75), 1)
    + Add(FGt(f.tempo, 12000), 1)
    + Add(FLt(f.acousticness, 20), 1)

score_hiphop(f, genres) ==
    artist_genre_bonus(genres, <<kw_hip_hop, kw_hip_hop2, kw_rap>>)
    + Add(FGe(f.tempo, 7000) /\ FLe(f.tempo, 11000), 1)
    + Add(FGt(f.speechiness, 33), 1)
    + Add(FGt(f.energy, 40), 1)

score_rnb(f, genres) ==
    artist_genre_bonus(genres, <<kw_r_and_b, kw_rnb, kw_r_and_b_soul>>)
    + Add(FLt(f.tempo, 10000), 1)
    + Add(FGe(f.energy, 30) /\ FLe(f.energy, 60), 1)
    + Add(FGt(f.danceability, 50), 1)
    + Add(FLt(f.valence, 60), 1)

score_jazz(f, genres) ==
    artist_genre_bonus(genres, <<kw_jazz>>)
    + Add(FGt(f.instrumentalness, 50), 1)
    + Add(FLt(f.energy, 50), 1)
    + Add(FLt(f.tempo, 12000), 1)

score_classical(f, genres) ==
    artist_genre_bonus(genres, <<kw_classical, kw_orchestra, kw_symphony>>)
    + Add(FGt(f.instrumentalness, 70), 1)
    + Add(FLt(f.energy, 30), 1)
    + Add(FLt(f.loudness, -2000), 1)

\* Variant: an energetic track is penalised instead of a quiet one rewarded.
score_acoustic_penalised(f, genres) ==
      Add(FGt(f.acousticness, 75), 2)
    - Add(FGe(f.energy, 50), 1)

\* Variant: the weight of `acousticness > 0.75` is 4.0 instead of 2.0.
score_acoustic_weight_4(f, genres) ==
      Add(FGt(f.acousticness, 75), 4)
    + Add(FLt(f.energy, 50), 1)

score_acoustic(f, genres) ==
      Add(FGt(f.acousticness, 75), 2)
    + Add(FLt(f.energy, 50), 1)

score_lofi(f, genres) ==
      Add(FLt(f.tempo, 8500), 1)
    + Add(FLt(f.energy, 40), 1)
    + Add(FLt(f.loudness, -1000), 1)
    + Add(FGt(f.instrumentalness, 30), 1)

score_indie(f, genres, pop) ==
    artist_genre_bonus(genres, <<kw_indie, kw_alternative>>)
    + Add(FGe(f.energy, 40) /\ FLe(f.energy, 70), 1)
    + Add(FGe(f.acousticness, 30) /\ FLe(f.acousticness, 60), 1)
    + Add(pop < 60, 1)

\* Variant: Metal's keywords without "rock".
score_metal_without_rock(f, genres) ==
    artist_genre_bonus(genres, <<kw_metal, kw_heavy_metal>>)
    + Add(FGt(f.energy, 80), 1)
    + Add(FGt(f.loudness, -500), 1)
    + Add(FGt(f.tempo, 12000), 1)

score_metal(f, genres) ==
    artist_genre_bonus(genres, <<kw_metal, kw_heavy_metal, kw_rock>>)
    + Add(FGt(f.energy, 80), 1)
    + Add(FGt(f.loudness, -500), 1)
    + Add(FGt(f.tempo, 12000), 1)

\* detect_genre, first statement: the GenreScores struct.
genre_scores(f, genres, pop) ==
    [ ballad    |-> score_ballad(f, genres),
      pop       |-> score_pop(f, genres),
      rock      |-> score_rock(f, genres),
      edm       |-> score_edm(f, genres),
      hiphop    |-> score_hiphop(f, genres),
      rnb       |-> score_rnb(f, genres),
      jazz      |-> score_jazz(f, genres),
      classical |-> score_classical(f, genres),
      acoustic  |-> score_acoustic(f, genres),
      lofi      |-> score_lofi(f, genres),
      indie     |-> score_indie(f, genres, pop),
      metal     |-> score_metal(f, genres) ]

\* detect_genre, second statement: max_score.
genre_max_score(scores) ==
    fold_max(NEG_INFINITY,
             << scores.ballad, scores.pop, scores.rock, scores.edm,
                scores.hiphop, scores.rnb, scores.jazz, scores.classical,
                scores.acoustic, scores.lofi, scores.indie, scores.metal >>)

\* The literal 0.0 returned as confidence with Unknown.
ZeroConfidence == [num |-> 0, den |-> 1]

\* Variant: the divisor is the largest feature-only score, 4.0.
genre_norm_score_over_feature_max(max_score) == [num |-> max_score, den |-> 4]

\* `max_score / 12.0`
genre_norm_score(max_score) == [num |-> max_score, den |-> 12]

\* Variant: the chain without the `max_score > 0.0` guard.
genre_select_unguarded(scores, max_score) ==
    LET norm_score == genre_norm_score(max_score) IN
    IF      scores.ballad    = max_score THEN <<"Ballad", norm_score>>
    ELSE IF scores.pop       = max_score THEN <<"Pop", norm_score>>
    ELSE IF scores.rock      = max_score THEN <<"Rock", norm_score>>
    ELSE IF scores.edm       = max_score THEN <<"Edm", norm_score>>
    ELSE IF scores.hiphop    = max_score THEN <<"HipHop", norm_score>>
    ELSE IF scores.rnb       = max_score THEN <<"RnB", norm_score>>
    ELSE IF scores.jazz      = max_score THEN <<"Jazz", norm_score>>
    ELSE IF scores.classical = max_score THEN <<"Classical", norm_score>>
    ELSE IF scores.acoustic  = max_score THEN <<"Acoustic", norm_score>>
    ELSE IF scores.lofi      = max_score THEN <<"LoFi", norm_score>>
    ELSE IF scores.indie     = max_score THEN <<"Indie", norm_score>>
    ELSE IF scores.metal     = max_score THEN <<"Metal", norm_score>>
    ELSE <<"Unknown", ZeroConfidence>>

\* Variant: Rock is tested before Pop.
genre_select_rock_before_pop(scores, max_score) ==
    IF max_score > 0 THEN
        LET norm_score == genre_norm_score(max_score) IN
        IF      scores.ballad    = max_score THEN <<"Ballad", norm_score>>
        ELSE IF scores.rock      = max_score THEN <<"Rock", norm_score>>
        ELSE IF scores.pop       = max_score THEN <<"Pop", norm_score>>
        ELSE IF scores.edm       = max_score THEN <<"Edm", norm_score>>
        ELSE IF scores.hiphop    = max_score THEN <<"HipHop", norm_score>>
        ELSE IF scores.rnb       = max_score THEN <<"RnB", norm_score>>
        ELSE IF scores.jazz      = max_score THEN <<"Jazz", norm_score>>
        ELSE IF scores.classical = max_score THEN <<"Classical", norm_score>>
        ELSE IF scores.acoustic  = max_score THEN <<"Acoustic", norm_score>>
        ELSE IF scores.lofi      = max_score THEN <<"LoFi", norm_score>>
        ELSE IF scores.indie     = max_score THEN <<"Indie", norm_score>>
        ELSE IF scores.metal     = max_score THEN <<"Metal", norm_score>>
        ELSE <<"Unknown", ZeroConfidence>>
    ELSE <<"Unknown", ZeroConfidence>>

\* detect_genre, third statement: the (genre, confidence) pair.
genre_select(scores, max_score) ==
    IF max_score > 0 THEN
        LET norm_score == genre_norm_score(max_score) IN
        IF      scores.ballad    = max_score THEN <<"Ballad", norm_score>>
        ELSE IF scores.pop       = max_score THEN <<"Pop", norm_score>>
        ELSE IF scores.rock      = max_score THEN <<"Rock", norm_score>>
        ELSE IF scores.edm       = max_score THEN <<"Edm", norm_score>>
        ELSE IF scores.hiphop    = max_score THEN <<"HipHop", norm_score>>
        ELSE IF scores.rnb       = max_score THEN <<"RnB", norm_score>>
        ELSE IF scores.jazz      = max_score THEN <<"Jazz", norm_score>>
        ELSE IF scores.classical = max_score THEN <<"Classical", norm_score>>
        ELSE IF scores.acoustic  = max_score THEN <<"Acoustic", norm_score>>
        ELSE IF scores.lofi      = max_score THEN <<"LoFi", norm_score>>
        ELSE IF scores.indie     = max_score THEN <<"Indie", norm_score>>
        ELSE IF scores.metal     = max_score THEN <<"Metal", norm_score>>
        ELSE <<"Unknown", ZeroConfidence>>
    ELSE <<"Unknown", ZeroConfidence>>

\* (Each `let` of the source becomes a bound variable, so that it is computed
\* once, as in the source.)
detect_genre(f, genres, pop) ==
    CHOOSE result \in
        { [genre |-> picked[1], confidence |-> picked[2], scores |-> scores] :
            <<scores, picked>> \in
                { <<s, genre_select(s, m)>> :
                    <<s, m>> \in { <<s0, genre_max_score(s0)>> :
                                      s0 \in {genre_scores(f, genres, pop)} } } } : TRUE

----------------------------------------------------------------------------
(* mood.rs *)

\* `if a { score += 2.0 } else if b { score += 1.0 }`
Tier(a, b) == IF a THEN 2 ELSE IF b THEN 1 ELSE 0

score_happy(f) ==
      Tier(FGt(f.valence, 70), FGt(f.valence, 50))
    + Add(FGt(f.energy, 60), 1)
    + Add(FGt(f.danceability, 60), 1)
    + Add(FGt(f.loudness, -800) /\ FLt(f.loudness, 0), 1)

\* Variant: the second valence tier is `valence < 0.5`.
score_sad_narrow_tier(f) ==
      Tier(FLt(f.valence, 40), FLt(f.valence, 50))
    + Add(FLt(f.tempo, 9000), 1)
    + Add(FLt(f.energy, 50), 1)
    + Add(FLt(f.danceability, 40), 1)
    + Add(FGt(f.acousticness, 50), 1)

score_sad(f) ==
      Tier(FLt(f.valence, 40), FLt(f.valence, 60))
    + Add(FLt(f.tempo, 9000), 1)
    + Add(FLt(f.energy, 50), 1)
    + Add(FLt(f.danceability, 40), 1)
    + Add(FGt(f.acousticness, 50), 1)

score_energetic(f) ==
      Tier(FGt(f.energy, 75), FGt(f.energy, 60))
    + Add(FGt(f.tempo, 12000), 1)
    + Add(FGt(f.danceability, 60), 1)
    + Add(FGt(f.loudness, -600), 1)
    + Add(FLt(f.acousticness, 30), 1)

score_calm(f) ==
      Tier(FLt(f.energy, 40), FLt(f.energy, 60))
    + Add(FLt(f.tempo, 10000), 1)
    + Add(FLt(f.danceability, 40), 1)
    + Add(FGt(f.valence, 50), 1)
    + Add(FLt(f.loudness, -800), 1)

\* Variant: the two thresholds of the energy rule are separate `if`s.
score_angry_untiered(f) ==
      Add(FGt(f.energy, 80), 2) + Add(FGt(f.energy, 65), 1)
    + Tier(FLt(f.valence, 30), FLt(f.valence, 50))
    + Add(FGt(f.tempo, 12000), 1)
    + Add(FGt(f.loudness, -500), 1)

score_angry(f) ==
      Tier(FGt(f.energy, 80), FGt(f.energy, 65))
    + Tier(FLt(f.valence, 30), FLt(f.valence, 50))
    + Add(FGt(f.tempo, 12000), 1)
    + Add(FGt(f.loudness, -500), 1)

score_melancholic(f) ==
      Add(FLt(f.valence, 50), 1)
    + Add(FLt(f.energy, 60) /\ FGt(f.energy, 30), 1)
    + Add(FLt(f.tempo, 11000), 1)
    + Add(FGt(f.acousticness, 40), 1)
    + Add(FLt(f.danceability, 50), 1)
    + Add(FGt(f.instrumentalness, 20), 1)

score_peaceful(f) ==
      Tier(FLt(f.energy, 45), FLt(f.energy, 60))
    + Add(FLt(f.tempo, 9500), 1)
    + Add(FGt(f.valence, 60), 1)
    + Add(FLt(f.loudness, -1000), 1)
    + Add(FGt(f.acousticness, 50) \/ FGt(f.instrumentalness, 40), 1)

score_romantic(f) ==
      Add(FGt(f.valence, 60), 1)
    + Add(FGe(f.tempo, 8000) /\ FLe(f.tempo, 11000), 1)
    + Add(FLt(f.energy, 65), 1)
    + Add(FGt(f.danceability, 40) /\ FLt(f.danceability, 70), 1)
    + Add(FGt(f.acousticness, 30), 1)
    + Add(FLt(f.loudness, -400), 1)
    + Add(FLt(f.speechiness, 20), 1)

\* detect_mood, first statement: the MoodScores struct.
mood_scores(f) ==
    [ happy       |-> score_happy(f),
      sad         |-> score_sad(f),
      energetic   |-> score_energetic(f),
      calm        |-> score_calm(f),
      angry       |-> score_angry(f),
      melancholic |-> score_melancholic(f),
      peaceful    |-> score_peaceful(f),
      romantic    |-> score_romantic(f) ]

\* detect_mood, second statement: max_score.
mood_max_score(scores) ==
    fold_max(NEG_INFINITY,
             << scores.happy, scores.sad, scores.energetic, scores.calm,
                scores.angry, scores.melancholic, scores.peaceful,
                scores.romantic >>)

\* Variant: the divisor is the winning label's own largest score, 7.0.
mood_norm_score_over_label_max(max_score) == [num |-> max_score, den |-> 7]

\* `max_score / 8.0`
mood_norm_score(max_score) == [num |-> max_score, den |-> 8]

\* Variant: Peaceful is tested before Calm.
mood_select_peaceful_before_calm(scores, max_score) ==
    IF max_score > 0 THEN
        LET norm_score == mood_norm_score(max_score) IN
        IF      scores.happy       = max_score THEN <<"Happy", norm_score>>
        ELSE IF scores.sad         = max_score THEN <<"Sad", norm_score>>
        ELSE IF scores.energetic   = max_score THEN <<"Energetic", norm_score>>
        ELSE IF scores.peaceful    = max_score THEN <<"Peaceful", norm_score>>
        ELSE IF scores.calm        = max_score THEN <<"Calm", norm_score>>
        ELSE IF scores.angry       = max_score THEN <<"Angry", norm_score>>
        ELSE IF scores.melancholic = max_score THEN <<"Melancholic", norm_score>>
        ELSE IF scores.romantic    = max_score THEN <<"Romantic", norm_score>>
        ELSE <<"Unknown", ZeroConfidence>>
    ELSE <<"Unknown", ZeroConfidence>>

\* Variant: the guard is `max_score >= 0.0`.
mood_select_nonnegative(scores, max_score) ==
    IF max_score >= 0 THEN
        LET norm_score == mood_norm_score(max_score) IN
        IF      scores.happy       = max_score THEN <<"Happy", norm_score>>
        ELSE IF scores.sad         = max_score THEN <<"Sad", norm_score>>
        ELSE IF scores.energetic   = max_score THEN <<"Energetic", norm_score>>
        ELSE IF scores.calm        = max_score THEN <<"Calm", norm_score>>
        ELSE IF scores.angry       = max_score THEN <<"Angry", norm_score>>
        ELSE IF scores.melancholic = max_score THEN <<"Melancholic", norm_score>>
        ELSE IF scores.peaceful    = max_score THEN <<"Peaceful", norm_score>>
        ELSE IF scores.romantic    = max_score THEN <<"Romantic", norm_score>>
        ELSE <<"Unknown", ZeroConfidence>>
    ELSE <<"Unknown", ZeroConfidence>>

\* detect_mood, third statement: the (mood, confidence) pair.
mood_select(scores, max_score) ==
    IF max_score > 0 THEN
        LET norm_score == mood_norm_score(max_score) IN
        IF      scores.happy       = max_score THEN <<"Happy", norm_score>>
        ELSE IF scores.sad         = max_score THEN <<"Sad", norm_score>>
        ELSE IF scores.energetic   = max_score THEN <<"Energetic", norm_score>>
        ELSE IF scores.calm        = max_score THEN <<"Calm", norm_score>>
        ELSE IF scores.angry       = max_score THEN <<"Angry", norm_score>>
        ELSE IF scores.melancholic = max_score THEN <<"Melancholic", norm_score>>
        ELSE IF scores.peaceful    = max_score THEN <<"Peaceful", norm_score>>
        ELSE IF scores.romantic    = max_score THEN <<"Romantic", norm_score>>
        ELSE <<"Unknown", ZeroConfidence>>
    ELSE <<"Unknown", ZeroConfidence>>

detect_mood(f) ==
    CHOOSE result \in
        { [mood |-> picked[1], confidence |-> picked[2], scores |-> scores] :
            <<scores, picked>> \in
                { <<s, mood_select(s, m)>> :
                    <<s, m>> \in { <<s0, mood_max_score(s0)>> :
                                      s0 \in {mood_scores(f)} } } } : TRUE

----------------------------------------------------------------------------
(* language.rs *)

\* Option<&str>: None, Some(s)
None == <<>>
Some(s) == <<s>>

\* enum Language
Language ==
    { "English", "Spanish", "French", "German", "Italian", "Portuguese",
      "Russian", "Japanese", "Korean", "Chinese", "Vietnamese", "Thai",
      "Hindi", "Arabic", "Turkish", "Swedish", "Polish", "Dutch", "Greek",
      "Unknown" }

\* The arms of the match of Language::code.
language_codes ==
    [ l \in Language |->
        IF l = "English" THEN <<"e","n">>
        ELSE IF l = "Spanish" THEN <<"e","s">>
        ELSE IF l = "French" THEN <<"f","r">>
        ELSE IF l = "German" THEN <<"d","e">>
        ELSE IF l = "Italian" THEN <<"i","t">>
        ELSE IF l = "Portuguese" THEN <<"p","t">>
        ELSE IF l = "Russian" THEN <<"r","u">>
        ELSE IF l = "Japanese" THEN <<"j","a">>
        ELSE IF l = "Korean" THEN <<"k","o">>
        ELSE IF l = "Chinese" THEN <<"z","h">>
        ELSE IF l = "Vietnamese" THEN <<"v","i">>
        ELSE IF l = "Thai" THEN <<"t","h">>
        ELSE IF l = "Hindi" THEN <<"h","i">>
        ELSE IF l = "Arabic" THEN <<"a","r">>
        ELSE IF l = "Turkish" THEN <<"t","r">>
        ELSE IF l = "Swedish" THEN <<"s","v">>
        ELSE IF l = "Polish" THEN <<"p","l">>
        ELSE IF l = "Dutch" THEN <<"n","l">>
        ELSE IF l = "Greek" THEN <<"e","l">>
        ELSE <<"u","n","k","n","o","w","n">> ]

\* The ISO 639-2 code for Greek in place of the ISO 639-1 code.
code_alpha3(l) == IF l = "Greek" THEN <<"e","l","l">> ELSE language_codes[l]

\* Language::code
code(l) == language_codes[l]

\* The upper-case letter of every lower-case ASCII letter.
lower_to_upper ==
    [ c \in { LowerChars[i] : i \in 1..Len(LowerChars) } |->
        UpperChars[CHOOSE i \in 1..Len(LowerChars) : LowerChars[i] = c] ]

\* char upper-casing: a lower-case ASCII letter becomes its upper-case
\* letter, every other character of the model's alphabet is unchanged.
char_to_uppercase(c) ==
    IF c \in DOMAIN lower_to_upper THEN lower_to_upper[c] ELSE c

\* Lower-casing in place of upper-casing.
to_uppercase_lowercased(s) == [i \in 1..Len(s) |-> char_to_lowercase(s[i])]

\* Upper-casing of the first character only.
to_uppercase_first(s) ==
    [i \in 1..Len(s) |-> IF i = 1 THEN char_to_uppercase(s[i]) ELSE s[i]]

\* str::to_uppercase
to_uppercase(s) == [i \in 1..Len(s) |-> char_to_uppercase(s[i])]

\* One arm of the match: the alternatives of its pattern and its value.
Arm(codes, language) == [codes |-> codes, language |-> language]

\* The arms of the match of country_to_language, in source order.
country_arms ==
    <<
       Arm({<<"U","S">>, <<"G","B">>, <<"A","U">>, <<"N","Z">>, <<"C","A">>, <<"I","E">>, <<"Z","A">>}, "English"),
       Arm({<<"E","S">>, <<"M","X">>, <<"A","R">>, <<"C","O">>, <<"C","L">>, <<"P","E">>, <<"V","E">>, <<"C","U">>}, "Spanish"),
       Arm({<<"F","R">>, <<"B","E">>, <<"C","H">>, <<"C","A">>, <<"S","N">>, <<"C","G">>, <<"C","D">>}, "French"),
       Arm({<<"D","E">>, <<"A","T">>, <<"C","H">>}, "German"),
       Arm({<<"I","T">>, <<"C","H">>}, "Italian"),
       Arm({<<"P","T">>, <<"B","R">>, <<"A","O">>, <<"M","Z">>, <<"C","V">>}, "Portuguese"),
       Arm({<<"R","U">>, <<"B","Y">>, <<"K","Z">>, <<"U","A">>}, "Russian"),
       Arm({<<"J","P">>}, "Japanese"),
       Arm({<<"K","R">>}, "Korean"),
       Arm({<<"C","N">>, <<"H","K">>, <<"T","W">>, <<"S","G">>}, "Chinese"),
       Arm({<<"V","N">>}, "Vietnamese"),
       Arm({<<"T","H">>}, "Thai"),
       Arm({<<"I","N">>}, "Hindi"),
       Arm({<<"S","A">>, <<"A","E">>, <<"E","G">>, <<"J","O">>, <<"L","B">>, <<"Q","A">>, <<"K","W">>}, "Arabic"),
       Arm({<<"T","R">>}, "Turkish"),
       Arm({<<"S","E">>}, "Swedish"),
       Arm({<<"N","O">>, <<"D","K">>}, "English"),
       Arm({<<"P","L">>}, "Polish"),
       Arm({<<"G","R">>}, "Greek"),
       Arm({<<"N","L">>}, "Dutch") >>

\* A keyed map filled from the arms in source order: a later entry for a
\* code replaces the earlier one.
match_last(arms, scrutinee) ==
    IF \E i \in 1..Len(arms) : scrutinee \in arms[i].codes
    THEN arms[CHOOSE i \in 1..Len(arms) :
                /\ scrutinee \in arms[i].codes
                /\ \A j \in (i + 1)..Len(arms) : scrutinee \notin arms[j].codes].language
    ELSE "Unknown"

\* The match expression: the value of the first arm with a pattern equal to
\* the scrutinee, the wildcard arm's value when there is none.
match_first(arms, scrutinee) ==
    IF \E i \in 1..Len(arms) : scrutinee \in arms[i].codes
    THEN arms[CHOOSE i \in 1..Len(arms) :
                /\ scrutinee \in arms[i].codes
                /\ \A j \in 1..(i - 1) : scrutinee \notin arms[j].codes].language
    ELSE "Unknown"

\* The match on the code as supplied, without the upper-casing.
country_to_language_exact(country_code) ==
    match_first(country_arms, country_code)

\* str::trim on the spaces of the model's alphabet.
RECURSIVE trim(_)
trim(s) ==
    IF s = <<>> THEN s
    ELSE IF Head(s) = " " THEN trim(Tail(s))
    ELSE IF s[Len(s)] = " " THEN trim(SubSeq(s, 1, Len(s) - 1))
    ELSE s

\* The match on the trimmed, upper-cased code.
country_to_language_trimmed(country_code) ==
    match_first(country_arms, to_uppercase(trim(country_code)))

country_to_language(country_code) ==
    match_first(country_arms, to_uppercase(country_code))

\* The result with the upper-cased code in place of the argument.
detect_language_from_country_normalised(country_code) ==
    [ language |-> IF country_code = None
                   THEN "Unknown"
                   ELSE country_to_language(country_code[1]),
      country_code |-> IF country_code = None
                       THEN None
                       ELSE Some(to_uppercase(country_code[1])) ]

\* struct LanguageDetection; country_code.map(|s| s.to_string()) is a copy
\* of the argument.
detect_language_from_country(country_code) ==
    [ language |-> IF country_code = None
                   THEN "Unknown"
                   ELSE country_to_language(country_code[1]),
      country_code |-> country_code ]

----------------------------------------------------------------------------
(* Inputs *)

\* struct AudioFeatures
AudioFeatures(tempo, energy, valence, danceability, acousticness, instrumentalness, loudness, speechiness) ==
    [ tempo |-> tempo, energy |-> energy, valence |-> valence,
      danceability |-> danceability, acousticness |-> acousticness,
      instrumentalness |-> instrumentalness, loudness |-> loudness,
      speechiness |-> speechiness ]

\* One call's arguments.
Input(f, genres, pop) == [features |-> f, artist_genres |-> genres, popularity |-> pop]

\* Tag strings of the tests.
tag_electronic == <<"e","l","e","c","t","r","o","n","i","c">>
tag_edm        == <<"e","d","m">>
tag_classical  == <<"c","l","a","s","s","i","c","a","l">>
tag_hip_hop    == <<"h","i","p"," ","h","o","p">>

\* Further tag strings the environment supplies: mixed case, a keyword inside
\* a longer word, a keyword of two labels, and tags that match nothing.
tag_Rock        == <<"R","o","c","k">>
tag_Indie_Pop   == <<"I","n","d","i","e"," ","P","o","p">>
tag_Heavy_Metal == <<"H","e","a","v","y"," ","M","e","t","a","l">>
tag_trap        == <<"t","r","a","p">>
tag_RandB       == <<"R","&","B">>
tag_Power_Ballad == <<"P","o","w","e","r"," ","B","a","l","l","a","d">>
tag_roc         == <<"r","o","c">>
tag_empty       == <<>>

TagUniverse ==
    { tag_edm, tag_Rock, tag_Indie_Pop, tag_Heavy_Metal, tag_trap, tag_RandB,
      tag_Power_Ballad, tag_roc, tag_empty }

\* sample_features() of both test modules.
sample_features == AudioFeatures(10000, 50, 50, 50, 50, 30, -800, 10)

\* The inputs of the tests of genre.rs, in file order.
GenreTestInputs ==
    << Input(AudioFeatures(7000, 30, 30, 20, 70, 10, -1200, 5), <<>>, 50),
       Input(AudioFeatures(12000, 70, 80, 75, 20, 10, -600, 5), <<>>, 80),
       Input(sample_features, <<tag_electronic, tag_edm>>, 70),
       Input(AudioFeatures(10000, 25, 60, 30, 95, 20, -1000, 8), <<>>, 60),
       Input(AudioFeatures(8000, 25, 40, 30, 40, 60, -1500, 5), <<>>, 40),
       Input(AudioFeatures(10000, 15, 40, 5, 80, 95, -2500, 0), <<tag_classical>>, 50),
       Input(AudioFeatures(14000, 80, 60, 40, 15, 30, -400, 8), <<>>, 70),
       Input(AudioFeatures(9500, 60, 50, 60, 10, 5, -500, 45), <<tag_hip_hop>>, 75),
       Input(AudioFeatures(10000, 50, 50, 50, 50, 50, -1000, 15), <<>>, 50),
       Input(sample_features, <<>>, 50) >>

\* The feature vectors of the tests of mood.rs, in file order.
MoodTestFeatures ==
    << AudioFeatures(13000, 80, 85, 75, 20, 10, -500, 5),
       AudioFeatures(7000, 30, 20, 20, 70, 10, -1200, 5),
       AudioFeatures(14000, 90, 70, 80, 10, 20, -400, 10),
       AudioFeatures(8000, 30, 65, 25, 60, 30, -1200, 5),
       AudioFeatures(13500, 88, 20, 50, 10, 10, -300, 20),
       AudioFeatures(9500, 45, 70, 55, 50, 20, -700, 8),
       AudioFeatures(6000, 20, 75, 15, 80, 60, -1500, 2),
       AudioFeatures(8500, 45, 35, 35, 65, 40, -1000, 10),
       AudioFeatures(10000, 50, 50, 50, 50, 50, -1000, 50) >>

\* A vector no comparison of which holds.
nan_features == AudioFeatures(NaN, NaN, NaN, NaN, NaN, NaN, NaN, NaN)

\* A fast, loud track of a rock artist with a middling acousticness: all of
\* Metal's predicates hold, two of Rock's fail (acousticness < 0.3, tempo <= 160).
fast_loud_rock == Input(AudioFeatures(17000, 90, 50, 50, 50, 30, -300, 10), <<tag_Rock>>, 70)

BaseInputs ==
    { GenreTestInputs[i] : i \in 1..Len(GenreTestInputs) }
    \cup { Input(MoodTestFeatures[i], <<>>, 50) : i \in 1..Len(MoodTestFeatures) }
    \cup { Input(nan_features, <<>>, 50) }
    \cup { fast_loud_rock }

\* Values a field takes: every threshold of a rule that reads the
\* field, a value inside every interval between neighbouring thresholds, values
\* outside the conventional range, and NaN.
FeatureGrid ==
    [ tempo            |-> { -1000, 6000, 7000, 7500, 8000, 8200, 8500, 8700, 9000, 9200,
                             9500, 9700, 10000, 10500, 11000, 11500, 12000, 12500,
                             13000, 14500, 16000, 17000, NaN },
      energy           |-> { -10, 25, 30, 35, 40, 42, 45, 47, 50, 55, 60, 62, 65, 67,
                             70, 72, 75, 77, 80, 90, 150, NaN },
      valence          |-> { -10, 20, 30, 35, 40, 45, 50, 55, 60, 65, 70, 80, 150, NaN },
      danceability     |-> { -10, 30, 40, 45, 50, 55, 60, 65, 70, 80, 150, NaN },
      acousticness     |-> { -10, 10, 20, 25, 30, 35, 40, 45, 50, 55, 60, 70, 75, 80,
                             150, NaN },
      instrumentalness |-> { -10, 10, 20, 25, 30, 35, 40, 45, 50, 60, 70, 80, 150, NaN },
      loudness         |-> { -2500, -2000, -1500, -1000, -900, -800, -700, -600, -550,
                             -500, -450, -400, -200, 0, 300, NaN },
      speechiness      |-> { -10, 10, 20, 25, 33, 40, 150, NaN } ]

FeatureNames == DOMAIN FeatureGrid

\* u32 values around the one threshold that reads popularity.
PopularityGrid == { 0, 59, 60, 61, 100 }

----------------------------------------------------------------------------------------------------------------------------------------
(* The sample of inputs and the calls *)

\* The feature vectors that differ from f in exactly one field, the field
\* taking a value of its grid.
OneFieldVariations(f) ==
    { [f EXCEPT ![nv[1]] = nv[2]] :
        nv \in UNION { { <<name, v>> : v \in FeatureGrid[name] } : name \in FeatureNames } }

\* The tag lists of at most MaxTags tags.
TagLists == UNION { [1..n -> TagUniverse] : n \in 0..MaxTags }

\* Vectors with every field at an end of its grid, and the valence also on
\* and between the thresholds 0.4 and 0.6: few predicates hold of them.
CornerFeatures ==
    { AudioFeatures(t, e, v, d, a, i, l, s) :
        <<t, e, v, d, a, i, l, s>> \in
            {-1000, 17000} \X {-10, 150} \X {-10, 40, 50, 60, 150} \X {-10, 150}
            \X {-10, 150} \X {-10, 150} \X {-2500, 300} \X {-10, 150} }

\* The feature vectors that differ from f in at most two fields.
TwoFieldVariations(f) == UNION { OneFieldVariations(g) : g \in OneFieldVariations(f) }

\* The inputs of the calls: every base input; every base input with one field
\* of the features changed; with tags added to its tag list; with another
\* popularity; sample_features(), the vector in the middle of the
\* thresholds, with two fields changed; and the corner vectors.
SampleInputs ==
    UNION { { Input(f, b.artist_genres, b.popularity) :
                f \in {b.features} \cup OneFieldVariations(b.features) }
            \cup { Input(b.features, b.artist_genres \o tags, b.popularity) :
                    tags \in TagLists }
            \cup { Input(b.features, b.artist_genres, p) : p \in PopularityGrid } :
            b \in BaseInputs }
    \cup { Input(f, <<>>, 50) : f \in TwoFieldVariations(sample_features) }
    \cup { Input(f, <<>>, 100) : f \in CornerFeatures }

\* main: AppState { spotify: Arc::new(Mutex::new(None)) }; no request yet.
IdleRequest == [route |-> "", code |-> None, pc |-> "idle", response |-> ""]
ServerInit ==
    /\ spotify = None
    /\ spotify_lock = None
    /\ requests = [r \in 1..MaxRequests |-> IdleRequest]

\* The chats that send commands to the bot.
Chats == {1, 2}

\* A chat without a command being handled.
IdleUpdate == [cmd |-> "", arg |-> <<>>, pc |-> "idle", reply |-> <<>>, sent |-> FALSE]

\* AppState { spotify: Arc::new(Mutex::new(None)) }
EmptyAppState == [spotify |-> None]

\* CHAT_STATES: Mutex::new(HashMap::new()); no command yet.
BotInit ==
    /\ CHAT_STATES = [c \in {} |-> EmptyAppState]
    /\ updates = [c \in Chats |-> IdleUpdate]

\* The arguments of the calls are fixed; no detector has been called.
Init ==
    /\ \E input \in SampleInputs :
        /\ features = input.features
        /\ artist_genres = input.artist_genres
        /\ popularity = input.popularity
    /\ genreDetection = <<>>
    /\ moodDetection = <<>>
    /\ countryCode = None
    /\ languageDetection = <<>>
    /\ languageCode = <<>>
    /\ ServerInit
    /\ BotInit

\* A call of detect_genre on the input.
DetectGenre ==
    /\ genreDetection = <<>>
    /\ genreDetection' = <<detect_genre(features, artist_genres, popularity)>>
    /\ UNCHANGED <<features, artist_genres, popularity, moodDetection,
                   countryCode, languageDetection, languageCode,
                   serverVars, botVars>>

\* A call of detect_mood on the input.
DetectMood ==
    /\ moodDetection = <<>>
    /\ moodDetection' = <<detect_mood(features)>>
    /\ UNCHANGED <<features, artist_genres, popularity, genreDetection,
                   countryCode, languageDetection, languageCode,
                   serverVars, botVars>>

Next ==
    \/ DetectGenre
    \/ DetectMood

Spec == Init /\ [][Next]_vars

----------------------------------------------------------------------------
(* State machine of the language resolver *)

\* Largest number of characters put before, and after, a code of the table.
MaxPad == 1

\* The characters of the country codes of the model.
CodeChars ==
    { UpperChars[i] : i \in 1..Len(UpperChars) }
    \cup { LowerChars[i] : i \in 1..Len(LowerChars) }
    \cup { " ", "1" }

\* The characters put around a code of the table.
PadChars == { " ", "x", "S" }

Pads == UNION { [1..n -> PadChars] : n \in 0..MaxPad }

\* The patterns of the match.
TableCodes == UNION { country_arms[i].codes : i \in 1..Len(country_arms) }

\* The spellings of a 2-letter string in upper and lower case.
CaseVariants(s) ==
    { <<a, b>> : <<a, b>> \in { s[1], char_to_lowercase(s[1]), char_to_uppercase(s[1]) }
                             \X { s[2], char_to_lowercase(s[2]), char_to_uppercase(s[2]) } }

\* The arguments of the calls: no code; every string of at most 2 characters;
\* every spelling of a code of the table with characters around it.
CountryCodeInputs ==
    { None }
    \cup { Some(s) : s \in UNION { [1..n -> CodeChars] : n \in 0..2 } }
    \cup { Some(before \o s \o after) :
            <<before, s, after>> \in
                Pads \X (UNION { CaseVariants(c) : c \in TableCodes }) \X Pads }

LangInit ==
    /\ features = sample_features
    /\ artist_genres = <<>>
    /\ popularity = 50
    /\ genreDetection = <<>>
    /\ moodDetection = <<>>
    /\ countryCode \in CountryCodeInputs
    /\ languageDetection = <<>>
    /\ languageCode = <<>>
    /\ ServerInit
    /\ BotInit

\* A call of detect_language_from_country on the country code.
DetectLanguage ==
    /\ languageDetection = <<>>
    /\ languageDetection' = <<detect_language_from_country(countryCode)>>
    /\ UNCHANGED <<features, artist_genres, popularity, genreDetection,
                   moodDetection, countryCode, languageCode,
                   serverVars, botVars>>

\* A call of code() on the language of the result.
CodeOfLanguage ==
    /\ languageDetection # <<>>
    /\ languageCode = <<>>
    /\ languageCode' = <<code(languageDetection[1].language)>>
    /\ UNCHANGED <<features, artist_genres, popularity, genreDetection,
                   moodDetection, countryCode, languageDetection,
                   serverVars, botVars>>

LangNext ==
    \/ DetectLanguage
    \/ CodeOfLanguage

LangSpec == LangInit /\ [][LangNext]_vars

----------------------------------------------------------------------------
(* State machine of the three operations on one track *)

\* The track inputs: the base inputs; the vector of sample_features() with
\* one field changed; the all-NaN vector at every popularity of the grid and,
\* at popularity 100, with one field changed.
CoreInputs ==
    BaseInputs
    \cup { Input(f, <<>>, 50) : f \in OneFieldVariations(sample_features) }
    \cup { Input(nan_features, <<>>, p) : p \in PopularityGrid }
    \cup { Input(f, <<>>, 100) : f \in OneFieldVariations(nan_features) }

\* The country codes: absent, empty, found, not found.
CoreCountryCodes == { None, Some(<<>>), Some(<<"u","s">>), Some(<<"X","X">>) }

CoreInit ==
    /\ \E input \in CoreInputs :
        /\ features = input.features
        /\ artist_genres = input.artist_genres
        /\ popularity = input.popularity
    /\ countryCode \in CoreCountryCodes
    /\ genreDetection = <<>>
    /\ moodDetection = <<>>
    /\ languageDetection = <<>>
    /\ languageCode = <<>>
    /\ ServerInit
    /\ BotInit

\* The three operations are called in any order.
CoreNext ==
    \/ DetectGenre
    \/ DetectMood
    \/ DetectLanguage

CoreSpec == CoreInit /\ [][CoreNext]_vars

----------------------------------------------------------------------------
(* HTTP backend: src/main.rs, src/state.rs, src/error.rs, src/handlers *)

\* The routes of the Router of main.
Routes ==
    { "/", "/auth/login", "/auth/callback", "/api/me", "/api/top-tracks",
      "/api/top-artists", "/api/recently-played" }

\* The routes whose handlers start with require_spotify.
ApiRoutes == { "/api/top-tracks", "/api/top-artists", "/api/recently-played" }

\* Variant: an empty slot reported as the other error of ApiError.
require_spotify_spotify_error(slot) ==
    IF slot = None THEN <<"Err", "Spotify">> ELSE <<"Ok", slot[1]>>

\* require_spotify, on the content of the slot read under the lock.
require_spotify(slot) ==
    IF slot = None THEN <<"Err", "Unauthorized">> ELSE <<"Ok", slot[1]>>

\* impl IntoResponse for ApiError
into_response(error) ==
    IF error = "Unauthorized" THEN "401 Not authenticated"
    ELSE "500 Spotify API error"

\* What the Spotify call of an API handler can come to: data, an error of
\* the API, or a panic of `track.id.unwrap()` on a track without an id.
FetchOutcomes(route) ==
    IF route = "/api/top-artists" THEN { "200 Json", "500 Spotify API error" }
    ELSE { "200 Json", "500 Spotify API error", "panic" }

\* The handler of request r ends with the response.
Respond(r, response) ==
    requests' = [requests EXCEPT ![r].pc = "done", ![r].response = response]

\* A request arrives, on a connection that is new or whose last request has
\* been answered; only /auth/callback reads its query parameters.
Receive(r) ==
    /\ requests[r].pc \in { "idle", "done" }
    /\ \E route \in Routes :
        \E query_code \in (IF route = "/auth/callback" THEN {None, Some("code")} ELSE {None}) :
            requests' = [requests EXCEPT ![r] =
                            [route |-> route, code |-> query_code, pc |-> "handler", response |-> ""]]
    /\ UNCHANGED <<spotify, spotify_lock>>
    /\ UNCHANGED <<detectorVars, botVars>>

\* root
Root(r) ==
    /\ requests[r].pc = "handler"
    /\ requests[r].route = "/"
    /\ Respond(r, "Spotify Dashboard Backend is running")
    /\ UNCHANGED <<spotify, spotify_lock>>
    /\ UNCHANGED <<detectorVars, botVars>>

\* login: a redirect to the authorize URL, or a panic (a missing environment
\* variable, the unwrap of get_authorize_url).
Login(r) ==
    /\ requests[r].pc = "handler"
    /\ requests[r].route = "/auth/login"
    /\ \E response \in { "Redirect authorize", "panic" } : Respond(r, response)
    /\ UNCHANGED <<spotify, spotify_lock>>
    /\ UNCHANGED <<detectorVars, botVars>>

\* callback, without a code: `None => return "No code received"`.
CallbackNoCode(r) ==
    /\ requests[r].pc = "handler"
    /\ requests[r].route = "/auth/callback"
    /\ requests[r].code = None
    /\ Respond(r, "No code received")
    /\ UNCHANGED <<spotify, spotify_lock>>
    /\ UNCHANGED <<detectorVars, botVars>>

\* callback, with a code: AuthCodeSpotify::new (which panics on a missing
\* environment variable) and request_token(code).await.
CallbackRequestToken(r) ==
    /\ requests[r].pc = "handler"
    /\ requests[r].route = "/auth/callback"
    /\ requests[r].code # None
    /\ \E outcome \in { "Ok", "Err", "panic" } :
        IF outcome = "Ok"
        THEN requests' = [requests EXCEPT ![r].pc = "store"]
        ELSE IF outcome = "Err"
        THEN Respond(r, "Token exchange failed")
        ELSE Respond(r, "panic")
    /\ UNCHANGED <<spotify, spotify_lock>>
    /\ UNCHANGED <<detectorVars, botVars>>

\* callback, after the exchange: `*state.spotify.lock().await = Some(spotify)`.
CallbackStore(r) ==
    /\ requests[r].pc = "store"
    /\ spotify_lock = None
    /\ spotify' = Some([client_of |-> r])
    /\ Respond(r, "Redirect /api/me")
    /\ UNCHANGED spotify_lock
    /\ UNCHANGED <<detectorVars, botVars>>

\* top_tracks, top_artists, recently_played: `require_spotify(&state).await?`.
RequireSpotify(r) ==
    /\ requests[r].pc = "handler"
    /\ requests[r].route \in ApiRoutes
    /\ spotify_lock = None
    /\ \E result \in {require_spotify(spotify)} :
        IF result[1] = "Err"
        THEN Respond(r, into_response(result[2]))
        ELSE requests' = [requests EXCEPT ![r].pc = "fetch"]
    /\ UNCHANGED <<spotify, spotify_lock>>
    /\ UNCHANGED <<detectorVars, botVars>>

\* top_tracks, top_artists, recently_played: the call of the Spotify API on
\* the clone of the client.
Fetch(r) ==
    /\ requests[r].pc = "fetch"
    /\ \E response \in FetchOutcomes(requests[r].route) : Respond(r, response)
    /\ UNCHANGED <<spotify, spotify_lock>>
    /\ UNCHANGED <<detectorVars, botVars>>

\* me: takes the lock; with an empty slot it answers and releases, else it
\* keeps the guard across current_user().await.
MeLock(r) ==
    /\ requests[r].pc = "handler"
    /\ requests[r].route = "/api/me"
    /\ spotify_lock = None
    /\ IF spotify = None
       THEN /\ Respond(r, "User not authenticated")
            /\ UNCHANGED spotify_lock
       ELSE /\ requests' = [requests EXCEPT ![r].pc = "current_user"]
            /\ spotify_lock' = Some(r)
    /\ UNCHANGED spotify
    /\ UNCHANGED <<detectorVars, botVars>>

\* me: current_user() returns; the guard is dropped with the response.
MeCurrentUser(r) ==
    /\ requests[r].pc = "current_user"
    /\ spotify_lock = Some(r)
    /\ \E response \in { "Logged in as", "Failed to fetch user" } : Respond(r, response)
    /\ spotify_lock' = None
    /\ UNCHANGED spotify
    /\ UNCHANGED <<detectorVars, botVars>>

DetectorsNotCalled ==
    /\ features = sample_features
    /\ artist_genres = <<>>
    /\ popularity = 50
    /\ genreDetection = <<>>
    /\ moodDetection = <<>>
    /\ countryCode = None
    /\ languageDetection = <<>>
    /\ languageCode = <<>>

ServerSpecInit ==
    /\ DetectorsNotCalled
    /\ ServerInit
    /\ BotInit

ServerNext ==
    \/ \E r \in 1..MaxRequests : Receive(r)
    \/ \E r \in 1..MaxRequests : Root(r)
    \/ \E r \in 1..MaxRequests : Login(r)
    \/ \E r \in 1..MaxRequests : CallbackNoCode(r)
    \/ \E r \in 1..MaxRequests : CallbackRequestToken(r)
    \/ \E r \in 1..MaxRequests : CallbackStore(r)
    \/ \E r \in 1..MaxRequests : RequireSpotify(r)
    \/ \E r \in 1..MaxRequests : Fetch(r)
    \/ \E r \in 1..MaxRequests : MeLock(r)
    \/ \E r \in 1..MaxRequests : MeCurrentUser(r)

ServerSpec == ServerSpecInit /\ [][ServerNext]_vars

----------------------------------------------------------------------------
(* Telegram bot: src/bot/commands.rs, src/bot/handlers.rs *)

\* enum Command, under rename_rule = "lowercase".
Command ==
    { "help", "login", "me", "top_tracks", "top_artists", "recently_played", "search",
      "playlists", "playlist", "create_playlist", "add_to_playlist" }

\* The variants that carry a String.
StringCommands == { "search", "playlist", "create_playlist", "add_to_playlist" }

\* The commands whose arm begins with get_or_create_state.
DataCommands == Command \ { "help", "login" }

\* The characters of the arguments.
ArgChars == { "a", " ", "|" }

\* The arguments a command is sent with.
Args(cmd) ==
    IF cmd = "add_to_playlist" THEN UNION { [1..n -> ArgChars] : n \in 0..MaxArgLen }
    ELSE IF cmd \in StringCommands THEN { <<>>, <<"a">> }
    ELSE { <<>> }

\* str::split(sep).collect(): the parts between the separators.
RECURSIVE split(_, _)
split(s, sep) ==
    IF s = <<>> THEN << <<>> >>
    ELSE LET rest == split(Tail(s), sep)
         IN  IF Head(s) = sep THEN << <<>> >> \o rest
             ELSE << <<Head(s)>> \o rest[1] >> \o Tail(rest)

Ok(response) == <<"Ok", response>>
Err(e) == <<"Err", e>>

AuthFirst == "Please authenticate first using <code>/login</code>"

\* Each function below gives the results its call can return, for the content
\* of the chat's slot and its arguments; with a client the result depends on
\* the answers of the Spotify API.
get_me(slot) ==
    IF slot = None THEN { Err(AuthFirst) }
    ELSE { Ok("Your Spotify Profile"), Err("Failed to fetch profile. Please try again.") }

get_top_tracks(slot) ==
    IF slot = None THEN { Err(AuthFirst) }
    ELSE { Err("Failed to fetch top tracks. Please try again."),
           Ok("No top tracks found. Start listening to see your favorites!"),
           Ok("Your Top Tracks") }

get_top_artists(slot) ==
    IF slot = None THEN { Err(AuthFirst) }
    ELSE { Err("Failed to fetch top artists. Please try again."),
           Ok("No top artists found."),
           Ok("Your Top Artists") }

get_recently_played(slot) ==
    IF slot = None THEN { Err(AuthFirst) }
    ELSE { Err("Failed to fetch recent tracks. Please try again."),
           Ok("No recently played tracks found."),
           Ok("Recently Played") }

\* Variant: the empty query is rejected before the session is looked at.
search_track_query_first(slot, query) ==
    IF query = <<>> THEN { Err("Please provide a search query.") }
    ELSE IF slot = None THEN { Err(AuthFirst) }
    ELSE { Err("Failed to search tracks. Please try again."),
           Ok("No results found"),
           Ok("Search Results") }

search_track(slot, query) ==
    IF slot = None THEN { Err(AuthFirst) }
    ELSE IF query = <<>> THEN { Err("Please provide a search query.") }
    ELSE { Err("Failed to search tracks. Please try again."),
           Ok("No results found"),
           Ok("Search Results") }

list_playlists(slot) ==
    IF slot = None THEN { Err(AuthFirst) }
    ELSE { Err("Failed to fetch playlists. Please try again."),
           Ok("Your Playlists: No playlists found."),
           Ok("Your Playlists") }

get_playlist(slot, playlist_name) ==
    IF slot = None THEN { Err(AuthFirst) }
    ELSE IF playlist_name = <<>> THEN { Err("Please provide a playlist name.") }
    ELSE { Err("Failed to fetch playlists. Please try again."),
           Err("Playlist not found."),
           Ok("Playlist") }

create_playlist(slot, playlist_name) ==
    IF slot = None THEN { Err(AuthFirst) }
    ELSE IF playlist_name = <<>> THEN { Err("Please provide a playlist name.") }
    ELSE { Err("Failed to fetch user info."),
           Err("Failed to create playlist. Please try again."),
           Ok("Playlist Created") }

add_to_playlist(slot, song_name, playlist_name) ==
    IF slot = None THEN { Err(AuthFirst) }
    ELSE IF song_name = <<>> \/ playlist_name = <<>>
    THEN { Err("Please provide both song name and playlist name.") }
    ELSE { Err("Failed to fetch your saved tracks."),
           Err("Track not found in your saved tracks."),
           Err("Failed to fetch playlists."),
           Err("Playlist not found."),
           Err("Failed to add track to playlist."),
           Err("Track ID not available."),
           Ok("Track Added") }

\* format!("<b>Error</b>\n\n{}", e)
ErrorMessage(e) == <<"<b>Error</b>", e>>

\* The message an arm sends for the result of its call.
MessageOf(result) ==
    IF result[1] = "Ok" THEN <<result[2]>> ELSE ErrorMessage(result[2])

InvalidFormat ==
    <<"<b>Invalid Format</b>", "Usage: <code>/add_to_playlist song_name | playlist_name</code>">>

\* The call of the arm of a command other than AddToPlaylist.
CallOf(cmd, slot, arg) ==
    CASE cmd = "me" -> get_me(slot)
      [] cmd = "top_tracks" -> get_top_tracks(slot)
      [] cmd = "top_artists" -> get_top_artists(slot)
      [] cmd = "recently_played" -> get_recently_played(slot)
      [] cmd = "search" -> search_track(slot, arg)
      [] cmd = "playlists" -> list_playlists(slot)
      [] cmd = "playlist" -> get_playlist(slot, arg)
      [] cmd = "create_playlist" -> create_playlist(slot, arg)

\* get_or_create_state: states.entry(chat_id).or_insert_with(..)
or_insert_with(states, chat_id, value) ==
    [c \in DOMAIN states \cup {chat_id} |-> IF c \in DOMAIN states THEN states[c] ELSE value]

\* bot.send_message(chat_id, message).await?: the handler ends, the message
\* sent or the request failed.
SendMessage(c, message) ==
    \E sent \in BOOLEAN :
        updates' = [updates EXCEPT ![c].pc = "done", ![c].reply = message, ![c].sent = sent]

\* A command of chat c arrives; the updates of one chat are handled one
\* after the other, those of different chats concurrently.
ReceiveCommand(c) ==
    /\ updates[c].pc \in { "idle", "done" }
    /\ \E cmd \in Command :
        \E arg \in Args(cmd) :
            updates' = [updates EXCEPT ![c] =
                           [cmd |-> cmd, arg |-> arg, pc |-> "handler", reply |-> <<>>, sent |-> FALSE]]
    /\ UNCHANGED <<CHAT_STATES, detectorVars, serverVars>>

\* Command::Help
CommandHelp(c) ==
    /\ updates[c].pc = "handler"
    /\ updates[c].cmd = "help"
    /\ SendMessage(c, <<"Spotify Dashboard Bot: Available Commands">>)
    /\ UNCHANGED <<CHAT_STATES, detectorVars, serverVars>>

\* Command::Login: the client is built (a panic on a missing environment
\* variable or an invalid URL), the URL is sent in a button or the error is
\* reported; the client is dropped at the end of the arm.
CommandLogin(c) ==
    /\ updates[c].pc = "handler"
    /\ updates[c].cmd = "login"
    /\ \E outcome \in { "Ok", "Err", "panic" } :
        IF outcome = "Ok" THEN SendMessage(c, <<"Spotify Authentication", "Login with Spotify">>)
        ELSE IF outcome = "Err" THEN SendMessage(c, <<"<b>Authentication Error</b>">>)
        ELSE updates' = [updates EXCEPT ![c].pc = "done"]
    /\ UNCHANGED <<CHAT_STATES, detectorVars, serverVars>>

\* get_or_create_state(chat_id.0).await, the first statement of the arm of
\* every other command.
GetOrCreateState(c) ==
    /\ updates[c].pc = "handler"
    /\ updates[c].cmd \in DataCommands
    /\ CHAT_STATES' = or_insert_with(CHAT_STATES, c, EmptyAppState)
    /\ updates' = [updates EXCEPT ![c].pc = "state"]
    /\ UNCHANGED <<detectorVars, serverVars>>

\* The arms of Me, TopTracks, TopArtists, RecentlyPlayed, Search, Playlists,
\* Playlist and CreatePlaylist after get_or_create_state: the call on the
\* chat's state and the message for its result.
CommandData(c) ==
    /\ updates[c].pc = "state"
    /\ updates[c].cmd \in DataCommands \ { "add_to_playlist" }
    /\ \E result \in CallOf(updates[c].cmd, CHAT_STATES[c].spotify, updates[c].arg) :
        SendMessage(c, MessageOf(result))
    /\ UNCHANGED <<CHAT_STATES, detectorVars, serverVars>>

\* The arm of AddToPlaylist after get_or_create_state.
CommandAddToPlaylist(c) ==
    /\ updates[c].pc = "state"
    /\ updates[c].cmd = "add_to_playlist"
    /\ \E parts \in { split(updates[c].arg, "|") } :
        IF Len(parts) # 2
        THEN SendMessage(c, InvalidFormat)
        ELSE \E result \in add_to_playlist(CHAT_STATES[c].spotify, trim(parts[1]), trim(parts[2])) :
                SendMessage(c, MessageOf(result))
    /\ UNCHANGED <<CHAT_STATES, detectorVars, serverVars>>

BotSpecInit ==
    /\ DetectorsNotCalled
    /\ ServerInit
    /\ BotInit

BotNext ==
    \/ \E c \in Chats : ReceiveCommand(c)
    \/ \E c \in Chats : CommandHelp(c)
    \/ \E c \in Chats : CommandLogin(c)
    \/ \E c \in Chats : GetOrCreateState(c)
    \/ \E c \in Chats : CommandData(c)
    \/ \E c \in Chats : CommandAddToPlaylist(c)

BotSpec == BotSpecInit /\ [][BotNext]_vars

----------------------------------------------------------------------------
(* Vocabulary of the properties *)

\* enum Genre and enum Mood without Unknown, in declaration order.
GenreLabels ==
    << "Ballad", "Pop", "Rock", "Edm", "HipHop", "RnB", "Jazz", "Classical",
       "Acoustic", "LoFi", "Indie", "Metal" >>
MoodLabels ==
    << "Happy", "Sad", "Energetic", "Calm", "Angry", "Melancholic", "Peaceful",
       "Romantic" >>

\* The field of GenreScores / MoodScores that holds a label's raw score.
GenreFieldOf ==
    [ Ballad |-> "ballad", Pop |-> "pop", Rock |-> "rock", Edm |-> "edm",
      HipHop |-> "hiphop", RnB |-> "rnb", Jazz |-> "jazz",
      Classical |-> "classical", Acoustic |-> "acoustic", LoFi |-> "lofi",
      Indie |-> "indie", Metal |-> "metal" ]
MoodFieldOf ==
    [ Happy |-> "happy", Sad |-> "sad", Energetic |-> "energetic",
      Calm |-> "calm", Angry |-> "angry", Melancholic |-> "melancholic",
      Peaceful |-> "peaceful", Romantic |-> "romantic" ]

\* The largest entry of a score breakdown.
MaxEntry(scores) ==
    CHOOSE v \in { scores[k] : k \in DOMAIN scores } :
        \A k \in DOMAIN scores : v >= scores[k]

\* The least element of a non-empty set of integers.
Least(S) == CHOOSE i \in S : \A j \in S : i <= j

\* A confidence compared with a decimal given in hundredths.
ConfidenceGt(c, hundredths) == c.num * 100 > hundredths * c.den

\* A confidence equal to the quotient n / d.
ConfidenceIs(c, n, d) == c.num * d = n * c.den

GenreCalled == genreDetection # <<>>
MoodCalled  == moodDetection # <<>>
LanguageCalled == languageDetection # <<>>

----------------------------------------------------------------------------
(* C1 *)

\* C1: detect_mood on tempo=130, energy=0.8, valence=0.85, danceability=0.75,
\* acousticness=0.2, instrumentalness=0.1, loudness=-5.0, speechiness=0.05
\* returns Happy with confidence > 0.4.
C1_HappyScenario ==
    (MoodCalled /\ features = AudioFeatures(13000, 80, 85, 75, 20, 10, -500, 5))
        => /\ moodDetection[1].mood = "Happy"
           /\ ConfidenceGt(moodDetection[1].confidence, 40)

----------------------------------------------------------------------------
(* C2, C3 *)

C2_Order ==
    << "Ballad", "Pop", "Rock", "Edm", "HipHop", "RnB", "Jazz", "Classical",
       "Acoustic", "LoFi", "Indie", "Metal" >>

\* C2: whenever two or more genre labels share a maximum raw score > 0, the
\* label detect_genre returns is the tied label that comes first in the order
\* Ballad, Pop, Rock, Edm, HipHop, RnB, Jazz, Classical, Acoustic, LoFi,
\* Indie, Metal.
C2_GenreTieBreak ==
    GenreCalled =>
        LET r    == genreDetection[1]
            m    == MaxEntry(r.scores)
            tied == { i \in 1..Len(C2_Order) : r.scores[GenreFieldOf[C2_Order[i]]] = m }
        IN  (Cardinality(tied) >= 2 /\ m > 0) => r.genre = C2_Order[Least(tied)]

\* A Pop/Rock tie at 4, no other label reaching 4, resolved to Pop.
C2_Witness ==
    /\ GenreCalled
    /\ genreDetection[1].scores.pop = 4
    /\ genreDetection[1].scores.rock = 4
    /\ genreDetection[1].scores.ballad < 4
    /\ MaxEntry(genreDetection[1].scores) = 4
    /\ genreDetection[1].genre = "Pop"

C3_Order ==
    << "Happy", "Sad", "Energetic", "Calm", "Angry", "Melancholic", "Peaceful",
       "Romantic" >>

----------------------------------------------------------------------------
(* C4 - C7 *)

\* C4: the confidence either detector returns lies in [0,1], and it is 0 if
\* and only if the maximum raw score over all classes is 0.
C4_ConfidenceRange ==
    /\ GenreCalled =>
          LET c == genreDetection[1].confidence IN
          /\ c.den > 0 /\ 0 <= c.num /\ c.num <= c.den
          /\ (c.num = 0) <=> (MaxEntry(genreDetection[1].scores) = 0)
    /\ MoodCalled =>
          LET c == moodDetection[1].confidence IN
          /\ c.den > 0 /\ 0 <= c.num /\ c.num <= c.den
          /\ (c.num = 0) <=> (MaxEntry(moodDetection[1].scores) = 0)

\* Both detectors called on one input: all four of Ballad's rules fire and a
\* tag matches, so detect_genre's maximum is 9, the largest there is
\* (confidence 9/12), and detect_mood's confidence is positive.
C4_Witness ==
    /\ GenreCalled /\ MoodCalled
    /\ MaxEntry(genreDetection[1].scores) = 9
    /\ ConfidenceIs(genreDetection[1].confidence, 9, 12)
    /\ moodDetection[1].confidence.num > 0

\* C5: in both detectors the label is Unknown exactly when the maximum raw
\* score is 0; a zero maximum yields Unknown with confidence 0, and a positive
\* maximum yields some label other than Unknown.
C5_UnknownIffZero ==
    /\ GenreCalled =>
          LET r == genreDetection[1] IN
          /\ (r.genre = "Unknown") <=> (MaxEntry(r.scores) = 0)
          /\ (MaxEntry(r.scores) = 0) => r.confidence.num = 0
          /\ (MaxEntry(r.scores) > 0) =>
                \E i \in 1..Len(GenreLabels) : r.genre = GenreLabels[i]
    /\ MoodCalled =>
          LET r == moodDetection[1] IN
          /\ (r.mood = "Unknown") <=> (MaxEntry(r.scores) = 0)
          /\ (MaxEntry(r.scores) = 0) => r.confidence.num = 0
          /\ (MaxEntry(r.scores) > 0) =>
                \E i \in 1..Len(MoodLabels) : r.mood = MoodLabels[i]

\* No rule fires and no tag matches: both detectors answer Unknown, 0.
C5_Witness ==
    /\ GenreCalled /\ MoodCalled
    /\ MaxEntry(genreDetection[1].scores) = 0
    /\ MaxEntry(moodDetection[1].scores) = 0
    /\ genreDetection[1].genre = "Unknown"
    /\ moodDetection[1].mood = "Unknown"
    /\ genreDetection[1].confidence.num = 0
    /\ moodDetection[1].confidence.num = 0

\* C6: detect_genre's result carries a raw score for each of the 12 genres and
\* detect_mood's for each of the 8 moods, also for the classes not selected,
\* and every raw score is >= 0.
C6_ScoresPresentNonNegative ==
    /\ GenreCalled =>
          /\ DOMAIN genreDetection[1].scores =
                { GenreFieldOf[GenreLabels[i]] : i \in 1..Len(GenreLabels) }
          /\ Cardinality(DOMAIN genreDetection[1].scores) = 12
          /\ \A k \in DOMAIN genreDetection[1].scores : genreDetection[1].scores[k] >= 0
    /\ MoodCalled =>
          /\ DOMAIN moodDetection[1].scores =
                { MoodFieldOf[MoodLabels[i]] : i \in 1..Len(MoodLabels) }
          /\ Cardinality(DOMAIN moodDetection[1].scores) = 8
          /\ \A k \in DOMAIN moodDetection[1].scores : moodDetection[1].scores[k] >= 0

\* A result whose breakdown shows positive scores of classes that lost, and a
\* zero score (Acoustic's) of a class of which no rule fired.
C6_Witness ==
    /\ GenreCalled /\ MoodCalled
    /\ genreDetection[1].genre = "Pop"
    /\ genreDetection[1].scores.rock > 0
    /\ genreDetection[1].scores.edm > 0
    /\ genreDetection[1].scores.acoustic = 0
    /\ moodDetection[1].mood = "Happy"
    /\ moodDetection[1].scores.energetic > 0

\* C7: whenever a detector returns a label other than Unknown, that label's
\* entry of the breakdown is the maximum of all entries, and the confidence is
\* that entry divided by 12 (detect_genre) or by 8 (detect_mood).
C7_WinnerIsMaxOverCeiling ==
    /\ (GenreCalled /\ genreDetection[1].genre # "Unknown") =>
          LET r == genreDetection[1]
              e == r.scores[GenreFieldOf[r.genre]]
          IN  /\ e = MaxEntry(r.scores)
              /\ ConfidenceIs(r.confidence, e, 12)
    /\ (MoodCalled /\ moodDetection[1].mood # "Unknown") =>
          LET r == moodDetection[1]
              e == r.scores[MoodFieldOf[r.mood]]
          IN  /\ e = MaxEntry(r.scores)
              /\ ConfidenceIs(r.confidence, e, 8)

\* Edm wins on the tag bonus alone, 5 points while other labels have fewer
\* (confidence 5/12), and on the same input Romantic wins detect_mood with 5 of
\* its 7 points (confidence 5/8, not 5/7).
C7_Witness ==
    /\ GenreCalled
    /\ genreDetection[1].genre = "Edm"
    /\ genreDetection[1].scores.edm = 5
    /\ ConfidenceIs(genreDetection[1].confidence, 5, 12)
    /\ MoodCalled
    /\ moodDetection[1].mood = "Romantic"
    /\ moodDetection[1].scores.romantic = 5
    /\ ConfidenceIs(moodDetection[1].confidence, 5, 8)

----------------------------------------------------------------------------
(* C8 - C10: the rule tables of the specification, as data *)

\* A rule: the predicate `kind` on the field `field` with the bounds a and b,
\* worth w points.  Kinds: "lt" (value < a), "gt" (value > a), "closed"
\* (a <= value <= b), "open" (a < value < b).
Rule(kind, field, a, b, w) == [kind |-> kind, field |-> field, a |-> a, b |-> b, w |-> w]
Lt(field, a)           == Rule("lt", field, a, a, 1)
Gt(field, a)           == Rule("gt", field, a, a, 1)
Closed(field, a, b)    == Rule("closed", field, a, b, 1)
Open(field, a, b)      == Rule("open", field, a, b, 1)

\* The value a rule reads: a field of the feature vector, or the popularity.
RefValue(field) == IF field = "popularity" THEN popularity ELSE features[field]

\* A predicate of the tables on numbers; it does not hold of a NaN.
RefHolds(rule) ==
    LET v == RefValue(rule.field) IN
    /\ v # NaN
    /\ CASE rule.kind = "lt"     -> v < rule.a
         [] rule.kind = "gt"     -> v > rule.a
         [] rule.kind = "closed" -> rule.a <= v /\ v <= rule.b
         [] rule.kind = "open"   -> rule.a < v /\ v < rule.b

\* The sum of the weights of the rules that hold.
RECURSIVE RefPoints(_)
RefPoints(rules) ==
    IF rules = <<>> THEN 0
    ELSE (IF RefHolds(Head(rules)) THEN Head(rules).w ELSE 0) + RefPoints(Tail(rules))

\* Section 4.1, per-label rule table: keywords and feature predicates.
RefGenreTable ==
    [ Ballad    |-> [ kw    |-> {kw_ballad},
                      rules |-> << Lt("tempo", 9000), Lt("energy", 45),
                                   Gt("acousticness", 40), Lt("valence", 60) >> ],
      Pop       |-> [ kw    |-> {},
                      rules |-> << Closed("tempo", 9000, 13000), Closed("energy", 40, 80),
                                   Gt("danceability", 50), Gt("valence", 40) >> ],
      Rock      |-> [ kw    |-> {kw_rock},
                      rules |-> << Gt("energy", 65), Gt("loudness", -800),
                                   Lt("acousticness", 30), Closed("tempo", 9000, 16000) >> ],
      Edm       |-> [ kw    |-> {kw_edm, kw_house, kw_techno, kw_electronic},
                      rules |-> << Gt("danceability", 70), Gt("energy", 75),
                                   Gt("tempo", 12000), Lt("acousticness", 20) >> ],
      HipHop    |-> [ kw    |-> {kw_hip_hop, kw_hip_hop2, kw_rap},
                      rules |-> << Closed("tempo", 7000, 11000), Gt("speechiness", 33),
                                   Gt("energy", 40) >> ],
      RnB       |-> [ kw    |-> {kw_r_and_b, kw_rnb, kw_r_and_b_soul},
                      rules |-> << Lt("tempo", 10000), Closed("energy", 30, 60),
                                   Gt("danceability", 50), Lt("valence", 60) >> ],
      Jazz      |-> [ kw    |-> {kw_jazz},
                      rules |-> << Gt("instrumentalness", 50), Lt("energy", 50),
                                   Lt("tempo", 12000) >> ],
      Classical |-> [ kw    |-> {kw_classical, kw_orchestra, kw_symphony},
                      rules |-> << Gt("instrumentalness", 70), Lt("energy", 30),
                                   Lt("loudness", -2000) >> ],
      Acoustic  |-> [ kw    |-> {},
                      rules |-> << Rule("gt", "acousticness", 75, 75, 2),
                                   Lt("energy", 50) >> ],
      LoFi      |-> [ kw    |-> {},
                      rules |-> << Lt("tempo", 8500), Lt("energy", 40),
                                   Lt("loudness", -1000), Gt("instrumentalness", 30) >> ],
      Indie     |-> [ kw    |-> {kw_indie, kw_alternative},
                      rules |-> << Closed("energy", 40, 70), Closed("acousticness", 30, 60),
                                   Lt("popularity", 60) >> ],
      Metal     |-> [ kw    |-> {kw_metal, kw_heavy_metal, kw_rock},
                      rules |-> << Gt("energy", 80), Gt("loudness", -500),
                                   Gt("tempo", 12000) >> ] ]

\* Lower-casing and substring containment, stated pointwise.
RefLowerPairs ==
    { <<"A","a">>, <<"B","b">>, <<"C","c">>, <<"D","d">>, <<"E","e">>, <<"F","f">>,
      <<"G","g">>, <<"H","h">>, <<"I","i">>, <<"J","j">>, <<"K","k">>, <<"L","l">>,
      <<"M","m">>, <<"N","n">>, <<"O","o">>, <<"P","p">>, <<"Q","q">>, <<"R","r">>,
      <<"S","s">>, <<"T","t">>, <<"U","u">>, <<"V","v">>, <<"W","w">>, <<"X","x">>,
      <<"Y","y">>, <<"Z","z">> }
RefLowerMap ==
    [ c \in { p[1] : p \in RefLowerPairs } |-> (CHOOSE p \in RefLowerPairs : p[1] = c)[2] ]
RefLowerOf(c) == IF c \in DOMAIN RefLowerMap THEN RefLowerMap[c] ELSE c
RefOccursIn(keyword, tag) ==
    \E start \in 1..Len(tag) :
        /\ start + Len(keyword) - 1 <= Len(tag)
        /\ \A j \in 1..Len(keyword) : RefLowerOf(tag[start + j - 1]) = keyword[j]

\* Some entry of artist_genres, lower-cased, contains some keyword of the label.
RefTagMatch(label) ==
    \E i \in 1..Len(artist_genres) : \E k \in RefGenreTable[label].kw :
        RefOccursIn(k, artist_genres[i])

\* The number of entries of artist_genres that contain a keyword of the label.
RefMatchingTags(label) ==
    Cardinality({ i \in 1..Len(artist_genres) :
                    \E k \in RefGenreTable[label].kw : RefOccursIn(k, artist_genres[i]) })

LabelsWithKeywords ==
    { GenreLabels[i] : i \in { j \in 1..Len(GenreLabels) : RefGenreTable[GenreLabels[j]].kw # {} } }

\* C8: for every label that has tag keywords, the bonus in its score (the
\* score less the points of its feature predicates) is exactly 5 if some entry
\* of artist_genres, lower-cased, contains one of its keywords as a substring,
\* and exactly 0 otherwise: once per label however many tags or keywords
\* match, and 0 for every label when the list is empty.
C8_TagBonus ==
    GenreCalled =>
        \A label \in LabelsWithKeywords :
            LET bonus == genreDetection[1].scores[GenreFieldOf[label]]
                            - RefPoints(RefGenreTable[label].rules)
            IN  /\ bonus = IF RefTagMatch(label) THEN 5 ELSE 0
                /\ artist_genres = <<>> => bonus = 0

\* Two tags that both match Edm's keywords: Edm's bonus is 5, its score 5,
\* and a label of which no keyword occurs (Rock) has its feature points only.
C8_Witness ==
    /\ GenreCalled
    /\ Len(artist_genres) = 2
    /\ RefMatchingTags("Edm") = 2
    /\ genreDetection[1].scores.edm = 5
    /\ ~RefTagMatch("Rock")
    /\ genreDetection[1].scores.rock = RefPoints(RefGenreTable["Rock"].rules)

\* C9: each of the 12 raw genre scores is the reference score of the rule
\* table: the sum of the weights of the label's feature predicates that hold
\* (1 each, 2 for Acoustic's acousticness > 0.75; strict comparisons except the
\* inclusive ranges) plus the label's tag bonus.
C9_GenreScoresMatchTable ==
    GenreCalled =>
        \A i \in 1..Len(GenreLabels) :
            LET label == GenreLabels[i] IN
            genreDetection[1].scores[GenreFieldOf[label]]
                = RefPoints(RefGenreTable[label].rules)
                  + (IF RefTagMatch(label) THEN 5 ELSE 0)

\* The tempo on the inclusive bound 90.0 of Pop's and Rock's ranges and on the
\* strict bound of Ballad's tempo < 90: Pop has all four of its points.
C9_Witness ==
    /\ GenreCalled
    /\ features.tempo = 9000
    /\ genreDetection[1].scores.pop = 4
    /\ genreDetection[1].scores.rock = 4
    /\ genreDetection[1].scores.ballad = 0

----------------------------------------------------------------------------
(* C10 *)

\* A tiered rule: 2 points if the tighter predicate holds, else 1 point if the
\* looser one holds, else none.
Tiered(tight, loose) == [tight |-> tight, loose |-> loose]
RefTierPoints(t) ==
    IF RefHolds(t.tight) THEN 2 ELSE IF RefHolds(t.loose) THEN 1 ELSE 0

RECURSIVE RefTiersPoints(_)
RefTiersPoints(tiers) ==
    IF tiers = <<>> THEN 0
    ELSE RefTierPoints(Head(tiers)) + RefTiersPoints(Tail(tiers))

\* Section 4.2, rule weights: tiered rules, flat rules worth 1 point each, and
\* the one flat rule that is a disjunction (`either`).
RefMoodTable ==
    [ Happy       |-> [ tiers  |-> << Tiered(Gt("valence", 70), Gt("valence", 50)) >>,
                        flat   |-> << Gt("energy", 60), Gt("danceability", 60),
                                      Open("loudness", -800, 0) >>,
                        either |-> {} ],
      Sad         |-> [ tiers  |-> << Tiered(Lt("valence", 40), Lt("valence", 60)) >>,
                        flat   |-> << Lt("tempo", 9000), Lt("energy", 50),
                                      Lt("danceability", 40), Gt("acousticness", 50) >>,
                        either |-> {} ],
      Energetic   |-> [ tiers  |-> << Tiered(Gt("energy", 75), Gt("energy", 60)) >>,
                        flat   |-> << Gt("tempo", 12000), Gt("danceability", 60),
                                      Gt("loudness", -600), Lt("acousticness", 30) >>,
                        either |-> {} ],
      Calm        |-> [ tiers  |-> << Tiered(Lt("energy", 40), Lt("energy", 60)) >>,
                        flat   |-> << Lt("tempo", 10000), Lt("danceability", 40),
                                      Gt("valence", 50), Lt("loudness", -800) >>,
                        either |-> {} ],
      Angry       |-> [ tiers  |-> << Tiered(Gt("energy", 80), Gt("energy", 65)),
                                      Tiered(Lt("valence", 30), Lt("valence", 50)) >>,
                        flat   |-> << Gt("tempo", 12000), Gt("loudness", -500) >>,
                        either |-> {} ],
      Melancholic |-> [ tiers  |-> << >>,
                        flat   |-> << Lt("valence", 50), Open("energy", 30, 60),
                                      Lt("tempo", 11000), Gt("acousticness", 40),
                                      Lt("danceability", 50), Gt("instrumentalness", 20) >>,
                        either |-> {} ],
      Peaceful    |-> [ tiers  |-> << Tiered(Lt("energy", 45), Lt("energy", 60)) >>,
                        flat   |-> << Lt("tempo", 9500), Gt("valence", 60),
                                      Lt("loudness", -1000) >>,
                        either |-> { Gt("acousticness", 50), Gt("instrumentalness", 40) } ],
      Romantic    |-> [ tiers  |-> << >>,
                        flat   |-> << Gt("valence", 60), Closed("tempo", 8000, 11000),
                                      Lt("energy", 65), Open("danceability", 40, 70),
                                      Gt("acousticness", 30), Lt("loudness", -400),
                                      Lt("speechiness", 20) >>,
                        either |-> {} ] ]

RefMoodScore(label) ==
    LET t == RefMoodTable[label] IN
    RefTiersPoints(t.tiers) + RefPoints(t.flat)
        + (IF \E r \in t.either : RefHolds(r) THEN 1 ELSE 0)

\* C10: each of the 8 raw mood scores is the reference score of the mood rule
\* table: a tiered rule gives exactly one of 2 (the tighter threshold holds),
\* 1 (only the looser one holds) or 0, never 3, and a flat rule gives 1 iff its
\* predicate holds.
C10_MoodScoresMatchTable ==
    MoodCalled =>
        \A i \in 1..Len(MoodLabels) :
            moodDetection[1].scores[MoodFieldOf[MoodLabels[i]]] = RefMoodScore(MoodLabels[i])

\* Both tighter thresholds of Angry's two tiered rules hold, and so do the
\* looser ones: Angry scores 2 + 2 + 1 + 1 = 6, not 8.
C10_Witness ==
    /\ MoodCalled
    /\ FGt(features.energy, 80) /\ FLt(features.valence, 30)
    /\ FGt(features.tempo, 12000) /\ FGt(features.loudness, -500)
    /\ moodDetection[1].scores.angry = 6

----------------------------------------------------------------------------
(* C11 *)

\* The groups of the table that list a code, by position in the table.
GroupsListing(s) == { i \in 1..Len(country_arms) : s \in country_arms[i].codes }

\* C11: a country code listed under more than one language is resolved by the
\* first group of the table that lists it: "CH" gives French (not German, not
\* Italian), "CA" gives English (not French), and a later group listing the
\* code never determines the result.
C11_FirstEntryWins ==
    (LanguageCalled /\ countryCode # None) =>
        /\ countryCode = Some(<<"C","H">>) => languageDetection[1].language = "French"
        /\ countryCode = Some(<<"C","A">>) => languageDetection[1].language = "English"
        /\ \A i \in GroupsListing(countryCode[1]) :
              \/ languageDetection[1].language = country_arms[i].language
              \/ \E j \in GroupsListing(countryCode[1]) :
                    /\ j < i
                    /\ languageDetection[1].language = country_arms[j].language

\* The resolver was called on "CH", listed by three groups, and gave French.
C11_Witness ==
    /\ LanguageCalled
    /\ countryCode = Some(<<"C","H">>)
    /\ Cardinality(GroupsListing(<<"C","H">>)) = 3
    /\ languageDetection[1].language = "French"

----------------------------------------------------------------------------
(* C12 *)

code_us == <<"u","s">>
code_US == <<"U","S">>

\* The other of the two spellings "us" and "US".
C12_OtherSpelling == IF countryCode = Some(code_us) THEN Some(code_US) ELSE Some(code_us)

\* C12 as stated: the results for Some("us") and Some("US") are equal values,
\* language label and country_code field.
C12_IdenticalResults ==
    (LanguageCalled /\ countryCode \in {Some(code_us), Some(code_US)}) =>
        languageDetection[1] = detect_language_from_country(C12_OtherSpelling)

\* C12 amended: the results for Some("us") and Some("US") have the same
\* language label, and the country_code field of each is the spelling that
\* was supplied.
C12_SameLanguageOwnSpelling ==
    (LanguageCalled /\ countryCode \in {Some(code_us), Some(code_US)}) =>
        /\ languageDetection[1].language =
              detect_language_from_country(C12_OtherSpelling).language
        /\ languageDetection[1].country_code = countryCode
        /\ detect_language_from_country(C12_OtherSpelling).country_code = C12_OtherSpelling

\* The resolver was called on "us": English, with "us" echoed.
C12_Witness ==
    /\ LanguageCalled
    /\ countryCode = Some(code_us)
    /\ languageDetection[1] = [language |-> "English", country_code |-> Some(code_us)]

----------------------------------------------------------------------------
(* C13 *)

RefUpperMap ==
    [ c \in { p[2] : p \in RefLowerPairs } |-> (CHOOSE p \in RefLowerPairs : p[2] = c)[1] ]
RefUpperOf(c) == IF c \in DOMAIN RefUpperMap THEN RefUpperMap[c] ELSE c

\* The re-casings of a string: every character in upper or in lower case.
RECURSIVE Recasings(_)
Recasings(s) ==
    IF s = <<>> THEN { <<>> }
    ELSE { <<h>> \o t : <<h, t>> \in { RefUpperOf(Head(s)), RefLowerOf(Head(s)) }
                                     \X Recasings(Tail(s)) }

\* C13: the language label for a country code is the label for each of its
\* re-casings (all upper, all lower, mixed); "us" gives English and "jp"
\* gives Japanese.
C13_LabelIgnoresCase ==
    (LanguageCalled /\ countryCode # None) =>
        /\ \A recased \in Recasings(countryCode[1]) :
              detect_language_from_country(Some(recased)).language
                  = languageDetection[1].language
        /\ countryCode = Some(code_us) => languageDetection[1].language = "English"
        /\ countryCode = Some(<<"j","p">>) => languageDetection[1].language = "Japanese"

\* The resolver was called on the mixed-case code "jP", which has four
\* re-casings, and gave Japanese.
C13_Witness ==
    /\ LanguageCalled
    /\ countryCode = Some(<<"j","P">>)
    /\ Cardinality(Recasings(countryCode[1])) = 4
    /\ languageDetection[1].language = "Japanese"

----------------------------------------------------------------------------
(* C14 *)

\* C14: the country_code field of the result is the caller's string, in its
\* original casing and untrimmed, whether or not the table has the code; it
\* is None when no code was supplied.
C14_CountryCodeEchoed ==
    LanguageCalled =>
        /\ languageDetection[1].country_code = countryCode
        /\ countryCode = None => languageDetection[1].country_code = None
        /\ countryCode # None =>
              /\ Len(languageDetection[1].country_code[1]) = Len(countryCode[1])
              /\ \A i \in 1..Len(countryCode[1]) :
                    languageDetection[1].country_code[1][i] = countryCode[1][i]

\* The resolver was called on " us" (a space, lower case): not in the table,
\* and echoed as supplied.
C14_Witness ==
    /\ LanguageCalled
    /\ countryCode = Some(<<" ","u","s">>)
    /\ languageDetection[1].language = "Unknown"
    /\ languageDetection[1].country_code = Some(<<" ","u","s">>)

----------------------------------------------------------------------------
(* C15 *)

\* s is, ignoring case, one of the 2-letter codes of the table.
IsTableCodeIgnoringCase(s) ==
    /\ Len(s) = 2
    /\ \E c \in TableCodes : \A i \in 1..2 : RefLowerOf(s[i]) = RefLowerOf(c[i])

\* C15: the resolver returns Unknown when no code is supplied and for every
\* supplied string that is not, ignoring case, a 2-letter code of the table
\* (the empty string, 1-letter and 3-letter strings, strings with
\* surrounding whitespace); a language other than Unknown is returned only
\* for case variants of table codes.
C15_UnknownOutsideTable ==
    LanguageCalled =>
        /\ countryCode = None => languageDetection[1].language = "Unknown"
        /\ (countryCode # None /\ ~IsTableCodeIgnoringCase(countryCode[1])) =>
              languageDetection[1].language = "Unknown"
        /\ languageDetection[1].language # "Unknown" =>
              (countryCode # None /\ IsTableCodeIgnoringCase(countryCode[1]))

\* The resolver was called on "JP " (a table code followed by a space) and
\* gave Unknown.
C15_Witness ==
    /\ LanguageCalled
    /\ countryCode = Some(<<"J","P"," ">>)
    /\ ~IsTableCodeIgnoringCase(countryCode[1])
    /\ languageDetection[1].language = "Unknown"

----------------------------------------------------------------------------
(* C16 *)

LowerLetters == { p[2] : p \in RefLowerPairs }

\* A string of exactly 2 lower-case letters.
IsTwoLetters(str) == Len(str) = 2 /\ \A i \in 1..2 : str[i] \in LowerLetters

\* C16 as stated: every value of Language, Unknown included, has a code() of
\* exactly 2 letters.  Stated of the value the resolver returned.
C16_EveryCodeTwoLetters ==
    languageCode # <<>> => IsTwoLetters(languageCode[1])

\* C16 amended: every value of Language other than Unknown has a code() of
\* exactly 2 letters (English "en", Japanese "ja", Vietnamese "vi"); the
\* code() of Unknown is the 7-letter string "unknown".
C16_CodeTwoLettersExceptUnknown ==
    languageCode # <<>> =>
        /\ languageDetection[1].language \in Language
        /\ languageDetection[1].language # "Unknown" => IsTwoLetters(languageCode[1])
        /\ languageDetection[1].language = "Unknown" =>
              languageCode[1] = <<"u","n","k","n","o","w","n">>
        /\ languageDetection[1].language = "English" => languageCode[1] = <<"e","n">>
        /\ languageDetection[1].language = "Japanese" => languageCode[1] = <<"j","a">>
        /\ languageDetection[1].language = "Vietnamese" => languageCode[1] = <<"v","i">>

\* The resolver returned Greek, and code() gave "el".
C16_Witness ==
    /\ languageCode = <<<<"e","l">>>>
    /\ languageDetection[1].language = "Greek"

----------------------------------------------------------------------------
(* C17 .. C20: scenarios *)

\* C17: detect_mood on tempo=60, energy=0.2, valence=0.75, danceability=0.15,
\* acousticness=0.8, instrumentalness=0.6, loudness=-15.0, speechiness=0.02
\* returns Peaceful with confidence > 0.4.
C17_PeacefulScenario ==
    (MoodCalled /\ features = AudioFeatures(6000, 20, 75, 15, 80, 60, -1500, 2))
        => /\ moodDetection[1].mood = "Peaceful"
           /\ ConfidenceGt(moodDetection[1].confidence, 40)

\* C18: detect_mood on tempo=85, energy=0.45, valence=0.35, danceability=0.35,
\* acousticness=0.65, instrumentalness=0.4, loudness=-10.0, speechiness=0.1
\* returns Melancholic with confidence > 0.35.
C18_MelancholicScenario ==
    (MoodCalled /\ features = AudioFeatures(8500, 45, 35, 35, 65, 40, -1000, 10))
        => /\ moodDetection[1].mood = "Melancholic"
           /\ ConfidenceGt(moodDetection[1].confidence, 35)

\* C19: detect_mood on tempo=100, loudness=-10.0 and every other feature 0.5
\* returns a confidence below 0.4 or one of the moods Happy and Calm.
C19_NoStrongSignalScenario ==
    (MoodCalled /\ features = AudioFeatures(10000, 50, 50, 50, 50, 50, -1000, 50))
        => \/ ~ConfidenceGt(moodDetection[1].confidence, 40)
              /\ ~ConfidenceIs(moodDetection[1].confidence, 40, 100)
           \/ moodDetection[1].mood \in {"Happy", "Calm"}

\* C20: detect_genre on tempo=70, energy=0.3, valence=0.3, danceability=0.2,
\* acousticness=0.7, instrumentalness=0.1, loudness=-12.0, speechiness=0.05,
\* no tags and popularity 50 returns Ballad with confidence > 0.3.
C20_BalladScenario ==
    (GenreCalled /\ features = AudioFeatures(7000, 30, 30, 20, 70, 10, -1200, 5)
                 /\ artist_genres = <<>> /\ popularity = 50)
        => /\ genreDetection[1].genre = "Ballad"
           /\ ConfidenceGt(genreDetection[1].confidence, 30)

\* detect_genre was called on the input of C20: Ballad scores 4 of 12, ahead
\* of RnB and LoFi with 3.
C20_Witness ==
    /\ GenreCalled
    /\ features = AudioFeatures(7000, 30, 30, 20, 70, 10, -1200, 5)
    /\ artist_genres = <<>>
    /\ popularity = 50
    /\ genreDetection[1].scores.ballad = 4
    /\ genreDetection[1].scores.rnb = 3
    /\ genreDetection[1].scores.lofi = 3
    /\ genreDetection[1].genre = "Ballad"

----------------------------------------------------------------------------
(* C21 *)

\* C21: detect_genre on the neutral feature vector (tempo=100, energy=0.5,
\* valence=0.5, danceability=0.5, acousticness=0.5, instrumentalness=0.3,
\* loudness=-8.0, speechiness=0.1) with tags ["electronic","edm"] and
\* popularity 70 returns Edm with confidence > 0.4, although none of Edm's
\* feature predicates (danceability>0.7, energy>0.75, tempo>120,
\* acousticness<0.2) holds: the score of Edm is the tag bonus alone.
C21_TagBonusScenario ==
    (GenreCalled /\ features = AudioFeatures(10000, 50, 50, 50, 50, 30, -800, 10)
                 /\ artist_genres = <<tag_electronic, tag_edm>> /\ popularity = 70)
        => /\ genreDetection[1].genre = "Edm"
           /\ ConfidenceGt(genreDetection[1].confidence, 40)
           /\ ~(features.danceability > 70) /\ ~(features.energy > 75)
           /\ ~(features.tempo > 12000) /\ ~(features.acousticness < 20)
           /\ genreDetection[1].scores.edm = 5

\* detect_genre was called on the input of C21: Edm has 5 of 12, every other
\* label less.
C21_Witness ==
    /\ GenreCalled
    /\ features = AudioFeatures(10000, 50, 50, 50, 50, 30, -800, 10)
    /\ artist_genres = <<tag_electronic, tag_edm>>
    /\ popularity = 70
    /\ genreDetection[1].genre = "Edm"
    /\ ConfidenceIs(genreDetection[1].confidence, 5, 12)
    /\ \A i \in 1..Len(GenreLabels) :
          GenreLabels[i] # "Edm" =>
              genreDetection[1].scores[GenreFieldOf[GenreLabels[i]]] < 5

----------------------------------------------------------------------------
(* C22 *)

\* Every entry of a score breakdown is 0.
AllZero(scores) == \A k \in DOMAIN scores : scores[k] = 0

\* C22: no operation fails.  For every feature vector (values outside [0,1],
\* negative tempo, positive loudness included), tag list, popularity and
\* present or absent country code, each of the three operations can be called
\* and returns a result value: a label of its enumeration, a confidence and a
\* score breakdown.  An input for which no rule predicate and no tag keyword
\* matches, all raw scores being 0, yields Unknown with confidence 0.
C22_NoOperationFails ==
    /\ genreDetection = <<>> => ENABLED DetectGenre
    /\ moodDetection = <<>> => ENABLED DetectMood
    /\ languageDetection = <<>> => ENABLED DetectLanguage
    /\ GenreCalled =>
          /\ DOMAIN genreDetection[1] = {"genre", "confidence", "scores"}
          /\ \E i \in 1..Len(GenreLabels) :
                genreDetection[1].genre \in {GenreLabels[i], "Unknown"}
          /\ genreDetection[1].confidence.den > 0
          /\ AllZero(genreDetection[1].scores) =>
                /\ genreDetection[1].genre = "Unknown"
                /\ ConfidenceIs(genreDetection[1].confidence, 0, 1)
    /\ MoodCalled =>
          /\ DOMAIN moodDetection[1] = {"mood", "confidence", "scores"}
          /\ \E i \in 1..Len(MoodLabels) :
                moodDetection[1].mood \in {MoodLabels[i], "Unknown"}
          /\ moodDetection[1].confidence.den > 0
          /\ AllZero(moodDetection[1].scores) =>
                /\ moodDetection[1].mood = "Unknown"
                /\ ConfidenceIs(moodDetection[1].confidence, 0, 1)
    /\ LanguageCalled =>
          /\ DOMAIN languageDetection[1] = {"language", "country_code"}
          /\ languageDetection[1].language \in Language

\* All three operations were called on the all-NaN vector with no tags,
\* popularity 100 and a country code that is not in the table: no rule
\* matched, and the results are Unknown, Unknown and Unknown.
C22_Witness ==
    /\ GenreCalled /\ MoodCalled /\ LanguageCalled
    /\ features = nan_features
    /\ popularity = 100
    /\ artist_genres = <<>>
    /\ countryCode = Some(<<"X","X">>)
    /\ AllZero(genreDetection[1].scores)
    /\ genreDetection[1].genre = "Unknown"
    /\ moodDetection[1].mood = "Unknown"
    /\ languageDetection[1].language = "Unknown"

----------------------------------------------------------------------------
(* C24 *)

\* The country codes of the tests of language.rs and the language each test
\* expects.
TestedCountries ==
    { <<<<"U","S">>, "English">>, <<<<"G","B">>, "English">>, <<<<"A","U">>, "English">>,
      <<<<"E","S">>, "Spanish">>, <<<<"M","X">>, "Spanish">>, <<<<"A","R">>, "Spanish">>,
      <<<<"F","R">>, "French">>, <<<<"D","E">>, "German">>, <<<<"I","T">>, "Italian">>,
      <<<<"P","T">>, "Portuguese">>,
      <<<<"J","P">>, "Japanese">>, <<<<"K","R">>, "Korean">>, <<<<"V","N">>, "Vietnamese">>,
      <<<<"C","N">>, "Chinese">>,
      <<<<"S","A">>, "Arabic">>, <<<<"T","R">>, "Turkish">> }

\* C24: the resolver maps the tested country codes to their primary language:
\* US, GB, AU to English; ES, MX, AR to Spanish; FR to French, DE to German,
\* IT to Italian, PT to Portuguese; JP to Japanese, KR to Korean, VN to
\* Vietnamese, CN to Chinese; SA to Arabic and TR to Turkish.
C24_TestedCountries ==
    LanguageCalled =>
        \A t \in TestedCountries :
            countryCode = Some(t[1]) => languageDetection[1].language = t[2]

\* The resolver was called on "AR" and gave Spanish.
C24_Witness ==
    /\ LanguageCalled
    /\ countryCode = Some(<<"A","R">>)
    /\ <<<<"A","R">>, "Spanish">> \in TestedCountries
    /\ languageDetection[1].language = "Spanish"

----------------------------------------------------------------------------
(* C25 *)

\* Some entry of artist_genres, lower-cased, contains the keyword.
TagContains(keyword) ==
    \E i \in 1..Len(artist_genres) : RefOccursIn(keyword, artist_genres[i])

\* The points of a label's feature predicates, and the rest of its score.
FeaturePoints(label) == RefPoints(RefGenreTable[label].rules)
BonusIn(label) == genreDetection[1].scores[GenreFieldOf[label]] - FeaturePoints(label)

\* "rock" is the only keyword of the tables that the tag list matches.
OnlyRockMatches ==
    /\ TagContains(kw_rock)
    /\ \A label \in LabelsWithKeywords :
          \A k \in RefGenreTable[label].kw : k # kw_rock => ~TagContains(k)

\* C25: a tag that contains "rock" adds the 5.0 bonus to the Rock score and to
\* the Metal score; tags that contain "metal" but not "rock" add it to Metal
\* and not to Rock; with a tag list whose only keyword match is "rock",
\* detect_genre returns Rock unless Metal's feature points are strictly more
\* than Rock's, and then it returns Metal.
C25_RockAndMetal ==
    GenreCalled =>
        /\ TagContains(kw_rock) => (BonusIn("Rock") = 5 /\ BonusIn("Metal") = 5)
        /\ (TagContains(kw_metal) /\ ~TagContains(kw_rock)) =>
              (BonusIn("Metal") = 5 /\ BonusIn("Rock") = 0)
        /\ OnlyRockMatches =>
              genreDetection[1].genre =
                  IF FeaturePoints("Metal") > FeaturePoints("Rock") THEN "Metal" ELSE "Rock"

\* detect_genre was called with the only tag "Rock" on a track with more
\* feature points for Metal than for Rock: both have the bonus, Metal wins.
C25_Witness ==
    /\ GenreCalled
    /\ OnlyRockMatches
    /\ FeaturePoints("Metal") = 3
    /\ FeaturePoints("Rock") = 2
    /\ genreDetection[1].scores.rock = 7
    /\ genreDetection[1].scores.metal = 8
    /\ genreDetection[1].genre = "Metal"

----------------------------------------------------------------------------
(* C26, C27 *)

\* The eight values of the feature vector are numbers.
NoNaN == \A k \in DOMAIN features : features[k] # NaN

\* C26: for every feature vector of eight numbers (no NaN), every tag list and
\* every popularity, detect_genre never returns Unknown: Ballad (valence<0.6)
\* or Pop (valence>0.4) scores at least 1, so the maximum raw score is at
\* least 1 and the confidence at least 1/12.
C26_GenreNeverUnknownOnNumbers ==
    (GenreCalled /\ NoNaN) =>
        /\ genreDetection[1].genre # "Unknown"
        /\ genreDetection[1].scores.ballad >= 1 \/ genreDetection[1].scores.pop >= 1
        /\ MaxEntry(genreDetection[1].scores) >= 1
        /\ genreDetection[1].confidence.num * 12 >= genreDetection[1].confidence.den

\* detect_genre was called on a vector of numbers with valence 0.6 of which no
\* predicate of Ballad holds and only the valence predicate of Pop.
C26_Witness ==
    /\ GenreCalled /\ NoNaN
    /\ features.valence = 60
    /\ genreDetection[1].scores.ballad = 0
    /\ genreDetection[1].scores.pop = 1
    /\ genreDetection[1].genre # "Unknown"

\* C27: for every feature vector of eight numbers (no NaN), detect_mood never
\* returns Unknown: Happy's valence rule (valence>0.5) or Sad's (valence<0.6)
\* holds, so the maximum raw score is at least 1 and the confidence at least
\* 1/8.
C27_MoodNeverUnknownOnNumbers ==
    (MoodCalled /\ NoNaN) =>
        /\ moodDetection[1].mood # "Unknown"
        /\ moodDetection[1].scores.happy >= 1 \/ moodDetection[1].scores.sad >= 1
        /\ MaxEntry(moodDetection[1].scores) >= 1
        /\ moodDetection[1].confidence.num * 8 >= moodDetection[1].confidence.den

\* detect_mood was called on the vector of sample_features(), valence 0.5:
\* Happy has no point and Sad only the point of its valence rule.
C27_Witness ==
    /\ MoodCalled /\ NoNaN
    /\ features = sample_features
    /\ moodDetection[1].scores.happy = 0
    /\ moodDetection[1].scores.sad = 1
    /\ moodDetection[1].mood # "Unknown"

----------------------------------------------------------------------------
(* C28 *)

\* The labels of which a keyword occurs in some tag.
MatchedLabels == { label \in LabelsWithKeywords : RefTagMatch(label) }

\* C28: whenever at least one artist tag matches a keyword of at least one
\* genre label, detect_genre returns a label of which a keyword was matched,
\* whatever the feature vector and the popularity: a label without a tag
\* match (Pop, Acoustic and LoFi, which have no keywords, included) scores at
\* most 4 and does not reach the 5.0 bonus.
C28_TagMatchDecides ==
    GenreCalled =>
        \A matched \in {MatchedLabels} :
            matched # {} =>
                /\ genreDetection[1].genre \in matched
                /\ \A i \in 1..Len(GenreLabels) :
                      GenreLabels[i] \notin matched =>
                          genreDetection[1].scores[GenreFieldOf[GenreLabels[i]]] <= 4
                /\ MaxEntry(genreDetection[1].scores) >= 5

\* detect_genre was called with a tag that matches only Edm on a track of
\* which all of Ballad's predicates and none of Edm's hold: Ballad has 4, Edm
\* has the bonus alone and is returned.
C28_Witness ==
    /\ GenreCalled
    /\ MatchedLabels = {"Edm"}
    /\ genreDetection[1].scores.ballad = 4
    /\ genreDetection[1].scores.edm = 5
    /\ genreDetection[1].genre = "Edm"

----------------------------------------------------------------------------
(* C29 *)

\* Request r is a callback that carries a code, whose token exchange has
\* succeeded, and which has not stored its client yet.
ExchangeSucceeded(r) ==
    /\ requests[r].route = "/auth/callback"
    /\ requests[r].code # None
    /\ requests[r].pc = "store"

\* Request r is answered in this step.
Answered(r) ==
    /\ requests[r].pc # "done"
    /\ requests'[r].pc = "done"

\* Request r, of a route that requires the session, passes its
\* require_spotify in this step.
PassesRequire(r) ==
    /\ requests[r].route \in ApiRoutes
    /\ requests[r].pc = "handler"
    /\ requests'[r].pc # "handler"

C29_Step ==
    /\ spotify' # spotify =>
            /\ spotify' # None
            /\ \E r \in 1..MaxRequests : ExchangeSucceeded(r) /\ Answered(r)
    /\ \A r \in 1..MaxRequests :
            (/\ Answered(r)
             /\ requests'[r].response \in { "No code received", "Token exchange failed" })
                => spotify' = spotify
    /\ spotify # None => spotify' # None
    /\ \A r \in 1..MaxRequests :
            PassesRequire(r) =>
                (requests'[r].response = "401 Not authenticated" <=> spotify = None)

\* C29: the session slot of the HTTP backend starts empty; a step changes it
\* only by filling it, and only when a callback that carries a code and whose
\* token exchange succeeded stores its client; a callback answered with
\* "No code received" or "Token exchange failed" leaves it unchanged; a filled
\* slot is never emptied; and a request for /api/top-tracks, /api/top-artists
\* or /api/recently-played is answered 401 Not authenticated by its
\* require_spotify exactly when the slot is empty at that step.
C29_SessionSlot == (spotify = None) /\ [][C29_Step]_vars

\* A callback has filled the slot and an API request has then been served
\* with data.
C29_Witness ==
    /\ spotify # None
    /\ \E r \in 1..MaxRequests :
            /\ requests[r].route = "/auth/callback"
            /\ requests[r].response = "Redirect /api/me"
    /\ \E r \in 1..MaxRequests :
            /\ requests[r].route \in ApiRoutes
            /\ requests[r].response = "200 Json"

----------------------------------------------------------------------------
(* C30 *)

\* Every stored session is empty.
SessionsEmpty == \A c \in DOMAIN CHAT_STATES : CHAT_STATES[c].spotify = None

\* The handler of a data command of chat c has ended with a message.
DataCommandReplied(c) ==
    /\ updates[c].pc = "done"
    /\ updates[c].cmd \in DataCommands

\* The argument of /add_to_playlist of chat c is not two parts around one '|'.
Malformed(c) ==
    /\ updates[c].cmd = "add_to_playlist"
    /\ Len(split(updates[c].arg, "|")) # 2

\* C30, as stated: in the bot every stored session is empty, and every data
\* command replies with the 'Please authenticate first' error.
C30_EveryDataCommandAuthFirst ==
    /\ SessionsEmpty
    /\ \A c \in Chats :
            DataCommandReplied(c) => updates[c].reply = ErrorMessage(AuthFirst)

\* C30, amended: in the bot every stored session is empty, and every data
\* command replies with the 'Please authenticate first' error, except an
\* /add_to_playlist whose argument does not consist of exactly two parts
\* separated by '|', which replies with the 'Invalid Format' message.
C30_AuthFirstUnlessMalformed ==
    /\ SessionsEmpty
    /\ \A c \in Chats :
            DataCommandReplied(c) =>
                IF Malformed(c)
                THEN updates[c].reply = InvalidFormat
                ELSE updates[c].reply = ErrorMessage(AuthFirst)

\* Both chats have a stored session; chat 1 has sent a malformed
\* /add_to_playlist and chat 2 a well-formed one, and both have been answered.
C30_Witness ==
    /\ DOMAIN CHAT_STATES = Chats
    /\ DataCommandReplied(1) /\ Malformed(1) /\ updates[1].sent
    /\ DataCommandReplied(2) /\ ~Malformed(2) /\ updates[2].sent
    /\ updates[2].cmd = "add_to_playlist"
    /\ updates[2].reply = ErrorMessage(AuthFirst)

====
